---- MODULE Spec2Model ----
(***************************************************************************)
(* Model of the scenario compiler of taas_1: LLMCompiler.generateScenarios *)
(* (Gemini generation, MCP selector repair) and the MCPClient session.     *)
(*                                                                         *)
(* Strings are sequences of tokens (words); a JSON / JavaScript value is a *)
(* record [t, v]: t is its type ("str", "num", "undef", "arr", "obj") and  *)
(* v its tokens.  Concatenation of strings is \o on the token sequences.   *)
(***************************************************************************)
EXTENDS Integers, Sequences, FiniteSets, TLC

(***************************************************************************)
(* JavaScript values                                                       *)
(***************************************************************************)
S(toks) == [t |-> "str", v |-> toks]
Undef == [t |-> "undef", v |-> <<>>]
Num5 == [t |-> "num", v |-> <<"5">>]
Arr(toks) == [t |-> "arr", v |-> toks]

\* a JSON object with a field toString that is no function, as JSON.parse
\* builds it from an object with the key toString and a number as its value
Obj == [t |-> "obj", v |-> <<>>]

\* JavaScript truthiness: undefined and "" are falsy; 5, every array and every
\* object are truthy
Truthy(x) == \/ x.t = "num"
             \/ x.t = "arr"
             \/ x.t = "obj"
             \/ x.t = "str" /\ x.v # <<>>

\* a || b
OrElse(a, b) == IF Truthy(a) THEN a ELSE b

\* `${x}` inside a template literal
Template(x) == IF x.t = "undef" THEN <<"undefined">> ELSE x.v

\* `${x}` throws a TypeError: x has no callable toString and its valueOf
\* returns no primitive
TemplateThrows(x) == x.t = "obj"

\* String.prototype.toLowerCase on one token (the tokens the /i patterns meet)
Lower(tok) == CASE tok = "Click" -> "click"
                [] tok = "On" -> "on"
                [] tok = "Enter" -> "enter"
                [] tok = "Fill" -> "fill"
                [] OTHER -> tok

\* s.replace(/^<w1> <w2> /i, '') on tokens: the pattern ends with a space, so
\* it matches only when another token follows the prefix
StripPrefix(toks, prefix) ==
    IF /\ Len(toks) > Len(prefix)
       /\ \A k \in 1..Len(prefix) : Lower(toks[k]) = prefix[k]
    THEN SubSeq(toks, Len(prefix) + 1, Len(toks))
    ELSE toks

(***************************************************************************)
(* The recognized step kinds (TestStep.action)                             *)
(***************************************************************************)
RecognizedActions == {"goto", "fill", "click", "expect", "wait", "type", "select", "hover"}

(***************************************************************************)
(* Parsed JSON objects a reply of the text service can carry.  O_dup: the   *)
(* first scenario supplies the id the mapping gives to the second; its     *)
(* first scenario has the four actions of the combined API, its second not *)
(***************************************************************************)
RawStep(a, tg, d, desc) == [action |-> a, target |-> tg, data |-> d, description |-> desc]
RawScenario(id, name, hasSteps, steps, tags) ==
    [id |-> id, name |-> name, hasSteps |-> hasSteps, steps |-> steps, tags |-> tags]

Url == S(<<"https://x.test">>)

LoginScenario ==
    RawScenario(S(<<"scn_", "1">>), S(<<"Login">>), TRUE,
        << RawStep(S(<<"goto">>), S(<<"https://other.test">>), Undef, S(<<"open", "page">>)),
           RawStep(S(<<"click">>), S(<<"#login">>), Undef, S(<<"Click", "on", "Login">>)) >>,
        Arr(<<"smoke">>))

FillScenario ==
    RawScenario(S(<<"scn_", "2">>), S(<<"Form">>), TRUE,
        << RawStep(S(<<"fill">>), S(<<"#user">>), S(<<"bob">>), S(<<"enter", "username">>)),
           RawStep(S(<<"expect">>), S(<<"#welcome">>), S(<<"visible">>), S(<<"see", "welcome">>)) >>,
        Undef)

WaitScenario ==
    RawScenario(Undef, Undef, TRUE,
        << RawStep(S(<<"wait">>), S(<<"#body">>), S(<<"500">>), S(<<"wait", "page">>)),
           RawStep(S(<<"type">>), S(<<"#q">>), S(<<"tla">>), S(<<"type", "query">>)) >>,
        Undef)

SpinnerScenario ==
    RawScenario(S(<<"scn_", "1">>), S(<<"Spinner">>), TRUE,
        << RawStep(S(<<"wait">>), S(<<"#spinner">>), Undef, S(<<"wait", "spinner">>)),
           RawStep(S(<<"goto">>), S(<<"https://other.test">>), Undef, S(<<"go", "back">>)) >>,
        Arr(<<>>))

\* a step whose description is a number, an unrecognized action, and a step
\* with every field absent
OddScenario ==
    RawScenario(S(<<"scn_", "2">>), S(<<"Odd">>), TRUE,
        << RawStep(S(<<"click">>), S(<<"#go">>), Undef, Num5),
           RawStep(S(<<"drag">>), S(<<"#item">>), Undef, S(<<"drag", "item">>)),
           RawStep(Undef, Undef, Undef, Undef) >>,
        Arr(<<"generated">>))

HoverScenario ==
    RawScenario(Undef, S(<<"Menu">>), TRUE,
        << RawStep(S(<<"hover">>), S(<<"#menu">>), Undef, S(<<"hover", "menu">>)),
           RawStep(S(<<"select">>), S(<<"#lang">>), S(<<"en">>), S(<<"pick", "language">>)) >>,
        Undef)

NavScenario ==
    RawScenario(S(<<"scn_", "1">>), S(<<"Nav">>), TRUE,
        << RawStep(S(<<"goto">>), S(<<"https://x.test">>), Undef, S(<<"open", "page">>)),
           RawStep(S(<<"click">>), S(<<"#login">>), Undef, S(<<"click", "Login">>)) >>,
        Undef)

\* the target of the second step is an object that no template literal can
\* convert
ObjStepScenario ==
    RawScenario(Undef, S(<<"Search">>), TRUE,
        << RawStep(S(<<"type">>), S(<<"#q">>), S(<<"tla">>), S(<<"type", "query">>)),
           RawStep(S(<<"click">>), Obj, Undef, S(<<"click", "Search">>)),
           RawStep(S(<<"expect">>), S(<<"#results">>), S(<<"visible">>), S(<<"see", "results">>)) >>,
        Undef)

\* the name of the scenario is such an object
ObjNameScenario ==
    RawScenario(S(<<"scn_", "2">>), Obj, TRUE,
        << RawStep(S(<<"wait">>), S(<<"#spinner">>), Undef, S(<<"wait", "spinner">>)) >>,
        Undef)

\* a scenario of allowed actions whose name is such an object
ObjNameClickScenario ==
    RawScenario(S(<<"scn_", "1">>), Obj, TRUE,
        << RawStep(S(<<"click">>), S(<<"#login">>), Undef, S(<<"click", "Login">>)) >>,
        Undef)

\* every string field is present and empty, the tags are an empty array
BlankScenario ==
    RawScenario(S(<<>>), S(<<>>), TRUE,
        << RawStep(S(<<>>), S(<<>>), S(<<>>), S(<<>>)) >>,
        Arr(<<>>))

NoStepsScenario == RawScenario(S(<<"scn_", "1">>), S(<<"Empty">>), FALSE, <<>>, Undef)

\* scen: "absent" (no scenarios key), "notArray" (scenarios is a string),
\* "array" (scenarios is the array list)
JsonObject(scen, list) == [scen |-> scen, list |-> list]

ObjNames == {"O_none", "O_str", "O_empty", "O_login", "O_wait", "O_spin", "O_odd", "O_hover", "O_nosteps", "O_nav", "O_dup",
             "O_objstep", "O_objname", "O_blank",
             "O_objfirst"}

Objects(name) ==
    CASE name = "O_none" -> JsonObject("absent", <<>>)
      [] name = "O_str" -> JsonObject("notArray", <<>>)
      [] name = "O_empty" -> JsonObject("array", <<>>)
      [] name = "O_login" -> JsonObject("array", <<LoginScenario, FillScenario>>)
      [] name = "O_wait" -> JsonObject("array", <<WaitScenario>>)
      [] name = "O_spin" -> JsonObject("array", <<SpinnerScenario>>)
      [] name = "O_odd" -> JsonObject("array", <<OddScenario>>)
      [] name = "O_hover" -> JsonObject("array", <<HoverScenario, NoStepsScenario>>)
      [] name = "O_nosteps" -> JsonObject("array", <<NoStepsScenario>>)
      [] name = "O_nav" -> JsonObject("array", <<NavScenario>>)
      [] name = "O_dup" -> JsonObject("array", <<FillScenario, HoverScenario>>)
      [] name = "O_objstep" -> JsonObject("array", <<NavScenario, ObjStepScenario>>)
      [] name = "O_objname" -> JsonObject("array", <<NavScenario, ObjNameScenario>>)
      [] name = "O_blank" -> JsonObject("array", <<BlankScenario>>)
      [] name = "O_objfirst" -> JsonObject("array", <<ObjNameClickScenario, NavScenario>>)

(***************************************************************************)
(* Replies of the text service: sequences of segments.  A segment is prose *)
(* without braces, an opening fence (three backticks and json), a closing  *)
(* fence (three backticks), a stray brace, or the text of one JSON object  *)
(* (named by ObjNames).                                                    *)
(***************************************************************************)
MaxReplyLen == 3

Segments == {"prose", "fenceOpen", "fenceClose", "lbrace", "rbrace"} \cup ObjNames

Replies == UNION {[1..n -> Segments] : n \in 0..MaxReplyLen}

HasOpenBrace(seg) == seg = "lbrace" \/ seg \in ObjNames
HasCloseBrace(seg) == seg = "rbrace" \/ seg \in ObjNames
IsFence(seg) == seg = "fenceOpen" \/ seg = "fenceClose"

Min(set) == CHOOSE x \in set : \A y \in set : x <= y
Max(set) == CHOOSE x \in set : \A y \in set : x >= y

\* response.match of the fenced block, lazily: the leftmost opening fence that
\* has a later fence, up to the nearest one (an opening fence begins with the
\* three backticks of a closing fence)
FencedText(reply) ==
    LET opens == {a \in 1..Len(reply) : reply[a] = "fenceOpen" /\
                     \E b \in (a + 1)..Len(reply) : IsFence(reply[b])}
    IN IF opens = {} THEN reply
       ELSE LET a == Min(opens)
                b == Min({c \in (a + 1)..Len(reply) : IsFence(reply[c])})
            IN SubSeq(reply, a + 1, b - 1)

\* GeminiService.parseGeminiResponse: the name of the parsed object, or
\* "throw".  The object pattern is greedy: first open brace to last close brace.
parseGeminiResponse(reply) ==
    LET jsonText == FencedText(reply)
        firsts == {k \in 1..Len(jsonText) : HasOpenBrace(jsonText[k])}
        lasts == {k \in 1..Len(jsonText) : HasCloseBrace(jsonText[k])}
    IN IF firsts = {} \/ lasts = {} THEN "throw"
       ELSE IF Max(lasts) < Min(firsts) THEN "throw"
       ELSE IF Min(firsts) = Max(lasts) /\ jsonText[Min(firsts)] \in ObjNames
            THEN jsonText[Min(firsts)]
       ELSE "throw"

(***************************************************************************)
(* GeminiService.generateTestScenarios: the outcome of the outbound call   *)
(***************************************************************************)
FetchKinds == {"fetchThrows", "notOk", "noCandidates", "text"}

FetchOutcome(kind, reply) == [kind |-> kind, reply |-> reply]

\* TRUE when generateTestScenarios throws
generateTestScenariosThrows(outcome) == outcome.kind # "text"

(***************************************************************************)
(* LLMCompiler.generateGeminiScenarios                                     *)
(***************************************************************************)
\* mutant of MapStep: the target has no default
MapStep_NoTargetDefault(step, stepIndex) ==
    [action |-> OrElse(step.action, S(<<"click">>)),
     target |-> step.target,
     data |-> step.data,
     description |-> OrElse(step.description, S(<<"Step", ToString(stepIndex)>>))]

MapStep(step, stepIndex) ==
    [action |-> OrElse(step.action, S(<<"click">>)),
     target |-> OrElse(step.target, S(<<"#body">>)),
     data |-> step.data,
     description |-> OrElse(step.description, S(<<"Step", ToString(stepIndex)>>))]

MapScenario(scenario, index) ==
    [id |-> OrElse(scenario.id, S(<<"scn_", ToString(index)>>)),
     name |-> OrElse(scenario.name, S(<<"Generated", "Scenario", ToString(index)>>)),
     steps |-> [k \in 1..Len(scenario.steps) |-> MapStep(scenario.steps[k], k)],
     timeTakenToCompile |-> Undef,
     tags |-> OrElse(scenario.tags, Arr(<<"generated">>))]

\* mutant of generateGeminiScenarios: the catch returns a sample scenario
\* instead of the empty list
generateGeminiScenarios_Fallback(outcome) ==
    LET fallback == <<MapScenario(NavScenario, 1)>>
    IN IF generateTestScenariosThrows(outcome) THEN fallback
       ELSE LET parsed == parseGeminiResponse(outcome.reply)
            IN IF parsed = "throw" THEN fallback
               ELSE IF Objects(parsed).scen # "array" THEN fallback
               ELSE LET list == Objects(parsed).list
                    IN IF \E k \in 1..Len(list) : ~list[k].hasSteps THEN fallback
                       ELSE [k \in 1..Len(list) |-> MapScenario(list[k], k)]

generateGeminiScenarios(outcome) ==
    IF generateTestScenariosThrows(outcome) THEN <<>>
    ELSE LET parsed == parseGeminiResponse(outcome.reply)
         IN IF parsed = "throw" THEN <<>>
            ELSE IF Objects(parsed).scen # "array" THEN <<>>
            ELSE LET list == Objects(parsed).list
                 IN IF \E k \in 1..Len(list) : ~list[k].hasSteps THEN <<>>
                    ELSE [k \in 1..Len(list) |-> MapScenario(list[k], k)]


(***************************************************************************)
(* MCPClient: replies of the automation backend to one callTool            *)
(***************************************************************************)
\* "throw": callTool rejects; "jsonImproved": JSON text with improvedSelector;
\* "jsonPlain": JSON text without it; "text": text that is not JSON;
\* "empty": a result without content
ValReplies == {"throw", "jsonImproved", "jsonPlain", "text", "emptyText", "empty"}

\* "jsonOk" / "jsonFail": JSON text with success true / false
ExecReplies == {"throw", "jsonOk", "jsonFail", "text", "empty"}

BackendSelector == S(<<"[data-testid=x]">>)
BackendText == S(<<"try", "#better">>)

MCPResult(success, improvedSelector, error) ==
    [success |-> success, improvedSelector |-> improvedSelector, error |-> error]

NotConnected == MCPResult(FALSE, Undef, "Not connected to MCP server")

\* mutant of validateSelector: text that is no JSON is dropped, the selector
\* asked about is returned
validateSelector_TextDropped(selector, reply) ==
    CASE reply = "throw" -> MCPResult(FALSE, Undef, "Unknown error")
      [] reply = "jsonImproved" -> MCPResult(TRUE, OrElse(BackendSelector, selector), "")
      [] reply = "jsonPlain" -> MCPResult(TRUE, OrElse(Undef, selector), "")
      [] reply = "text" -> MCPResult(TRUE, selector, "")
      [] reply = "emptyText" -> MCPResult(TRUE, selector, "")
      [] reply = "empty" -> MCPResult(TRUE, selector, "")

\* MCPClient.validateSelector once the connection guard has passed
validateSelector(selector, reply) ==
    CASE reply = "throw" -> MCPResult(FALSE, Undef, "Unknown error")
      [] reply = "jsonImproved" -> MCPResult(TRUE, OrElse(BackendSelector, selector), "")
      [] reply = "jsonPlain" -> MCPResult(TRUE, OrElse(Undef, selector), "")
      [] reply = "text" -> MCPResult(TRUE, BackendText, "")
      [] reply = "emptyText" -> MCPResult(TRUE, S(<<>>), "")
      [] reply = "empty" -> MCPResult(TRUE, selector, "")

\* parsed.success || true
SuccessOrTrue(parsedSuccess) == parsedSuccess \/ TRUE

\* navigate / click / fill / expect / wait / type: the success field
ToolSuccess(reply) ==
    CASE reply = "throw" -> FALSE
      [] reply = "jsonOk" -> SuccessOrTrue(TRUE)
      [] reply = "jsonFail" -> SuccessOrTrue(FALSE)
      [] reply = "text" -> TRUE
      [] reply = "empty" -> TRUE

ExecutableActions == {"goto", "click", "fill", "expect", "wait", "type"}

\* mutant of executeStep: an action outside the switch counts as done
executeStep_DefaultSucceeds(action, target, reply) ==
    IF action \in {S(<<a>>) : a \in ExecutableActions}
    THEN IF ToolSuccess(reply)
         THEN MCPResult(TRUE, IF action \in {S(<<"goto">>), S(<<"wait">>)} THEN Undef ELSE target, "")
         ELSE MCPResult(FALSE, Undef, "failed")
    ELSE MCPResult(TRUE, target, "")

\* MCPClient.executeStep once the connection guard has passed
executeStep(action, target, reply) ==
    IF action \in {S(<<a>>) : a \in ExecutableActions}
    THEN IF ToolSuccess(reply)
         THEN MCPResult(TRUE, IF action \in {S(<<"goto">>), S(<<"wait">>)} THEN Undef ELSE target, "")
         ELSE MCPResult(FALSE, Undef, "failed")
    ELSE MCPResult(FALSE, Undef, "Unknown action")

(***************************************************************************)
(* State                                                                   *)
(***************************************************************************)
Runs == {1, 2}

VARIABLES
    clock,          \* Date.now()
    client,         \* MCPClient.client: 0 is null, r the Client made by run r's connect()
    transport,      \* MCPClient.transport, likewise
    isConnected,    \* MCPClient.isConnected
    clientState,    \* per Client object: "none", "new", "open", "failed"
    closes,         \* per object: how often close() was called on the Client / the transport
    run,            \* per generateScenarios call: its locals
    task,           \* per call: one record per scenario callback of Promise.all
    offBy,          \* what set isConnected to false last
    gOutcome,       \* generateGeminiScenarios alone: the outcome of the outbound call
    gResult,        \* generateGeminiScenarios alone: what it returned
    api,            \* MCPClient alone: the calls a caller has made on one MCPClient
    gen,            \* generatePlaywrightTest alone: its arguments and what it returned
    req             \* combined API server: the /api/v1/generate requests and the files on disk

vars == <<clock, client, transport, isConnected, clientState, closes, run, task, offBy,
          gOutcome, gResult, api, gen, req>>

mcpVars == <<client, transport, isConnected, clientState, closes, offBy>>
geminiVars == <<gOutcome, gResult>>
unitVars == <<api, gen, req>>

MaxClock == 1

NoOutput == [runId |-> <<>>, outputs |-> <<>>, source |-> "", stage |-> "",
             totalTime |-> <<>>, mcpValidationSuccessful |-> FALSE]

IdleRun ==
    [pc |-> "idle", runId |-> Undef, startTime |-> 0, fetch |-> "", scenarios |-> <<>>,
     geminiOutput |-> NoOutput, connected |-> "none", repairStart |-> 0,
     improvedScenarios |-> <<>>, mcpValidationSuccessful |-> FALSE,
     mcpOutput |-> NoOutput, disconnects |-> 0, threw |-> FALSE]

\* no call made yet on the MCPClient
NoCalls ==
    [seq |-> 0, connects |-> 0, pc |-> "idle", op |-> "none", prev |-> "none",
     action |-> Undef, reply |-> "none", guard |-> "none", success |-> FALSE,
     improvedSelector |-> Undef, threw |-> FALSE, backendCalls |-> 0]

\* generatePlaywrightTest not called
NotCompiled ==
    [done |-> FALSE, scenario |-> [name |-> S(<<>>), steps |-> <<>>],
     options |-> [selectorStrategy |-> "css"],
     simple |-> [threw |-> FALSE, lines |-> <<>>],
     combined |-> [threw |-> FALSE, lines |-> <<>>]]

\* the combined API server has started: no request yet, the results folders
\* hold no file of this server
NoRequest ==
    [pc |-> "idle", n |-> 0, status |-> 0, content |-> <<>>, parsed |-> "none",
     wrote |-> [json |-> 0, spec |-> 0, deflake |-> 0],
     disk |-> [json |-> 0, spec |-> 0, deflake |-> 0],
     successful |-> <<>>, failed |-> <<>>, totalScenarios |-> 0]

Init ==
    /\ clock = 0
    /\ client = 0
    /\ transport = 0
    /\ isConnected = FALSE
    /\ clientState = [r \in Runs |-> "none"]
    /\ closes = [client |-> [r \in Runs |-> 0], transport |-> [r \in Runs |-> 0]]
    /\ run = [r \in Runs |-> IdleRun]
    /\ task = [r \in Runs |-> <<>>]
    /\ offBy = [kind |-> "init", run |-> 0]
    /\ gOutcome = FetchOutcome("fetchThrows", <<>>)
    /\ gResult = [done |-> FALSE, out |-> <<>>]
    /\ api = NoCalls
    /\ gen = NotCompiled
    /\ req = NoRequest

\* Date.now() advances
Tick ==
    /\ clock < MaxClock
    /\ clock' = clock + 1
    /\ UNCHANGED <<mcpVars, run, task, geminiVars, unitVars>>


(***************************************************************************)
(* LLMCompiler.executeStepWithMCP / executeScenarioWithMCP: one coroutine  *)
(* per scenario, suspended at each await                                   *)
(***************************************************************************)
NewTask ==
    [pc |-> "new", i |-> 0, improvedTarget |-> Undef, improvedDescription |-> Undef,
     improvedSteps |-> <<>>, sent |-> FALSE, via |-> 0, val |-> "none", exec |-> "none",
     valGuard |-> "none", execGuard |-> "none", offered |-> Undef, arg |-> Undef,
     valReply |-> "none",
     log |-> <<>>, calls |-> 0, backend |-> 0, lost |-> FALSE, time |-> <<>>]

\* mutant of Issue: the first goto is called with the target of the step
Issue_StepTarget(tk, pc, conn, cl, off) ==
    LET sent == conn /\ cl # 0
        seen == IF ~conn THEN "disconnected" ELSE IF cl = 0 THEN "noClient" ELSE "connected"
    IN [tk EXCEPT !.pc = pc, !.sent = sent, !.via = IF sent THEN cl ELSE 0,
                  !.arg = tk.improvedTarget,
                  !.valGuard = IF pc = "valWait" THEN seen ELSE @,
                  !.execGuard = IF pc = "valWait" THEN @ ELSE seen,
                  !.calls = @ + 1,
                  !.backend = @ + (IF sent THEN 1 ELSE 0),
                  !.lost = @ \/ (~sent /\ (cl = 0 \/ off.kind = "disconnect"))]

\* A call of validateSelector or executeStep: the guard
\* (!this.isConnected || !this.client) is evaluated at the call; conn and cl are
\* isConnected and client at that moment, off is offBy.  valGuard / execGuard
\* keep what the session looked like at the call: "connected", "noClient"
\* (isConnected but client null) or "disconnected"; arg is the url or the
\* selector the call is made with
Issue(tk, pc, conn, cl, off) ==
    LET sent == conn /\ cl # 0
        seen == IF ~conn THEN "disconnected" ELSE IF cl = 0 THEN "noClient" ELSE "connected"
    IN [tk EXCEPT !.pc = pc, !.sent = sent, !.via = IF sent THEN cl ELSE 0,
                  !.arg = IF pc = "gotoWait" THEN Url ELSE tk.improvedTarget,
                  !.valGuard = IF pc = "valWait" THEN seen ELSE @,
                  !.execGuard = IF pc = "valWait" THEN @ ELSE seen,
                  !.calls = @ + 1,
                  !.backend = @ + (IF sent THEN 1 ELSE 0),
                  !.lost = @ \/ (~sent /\ (cl = 0 \/ off.kind = "disconnect"))]

\* mutant of ReturnStep: a step whose execution failed is not pushed
ReturnStep_DropFailed(tk, step) ==
    IF tk.exec = "failed"
    THEN [tk EXCEPT !.pc = "delay"]
    ELSE [tk EXCEPT !.improvedSteps = Append(@, [step EXCEPT !.target = tk.improvedTarget,
                                                             !.description = tk.improvedDescription]),
                    !.log = Append(@, [val |-> tk.val, exec |-> tk.exec,
                                       valGuard |-> tk.valGuard, execGuard |-> tk.execGuard,
                                  offered |-> tk.offered, fresh |-> TRUE]),
                    !.valReply = "none", !.pc = "delay"]

\* mutant of ReturnStep: the pushed step is built from action, target and
\* description alone
ReturnStep_DropsData(tk, step) ==
    [tk EXCEPT !.improvedSteps = Append(@, [step EXCEPT !.target = tk.improvedTarget,
                                                        !.description = tk.improvedDescription,
                                                        !.data = Undef]),
               !.log = Append(@, [val |-> tk.val, exec |-> tk.exec,
                                  valGuard |-> tk.valGuard, execGuard |-> tk.execGuard,
                                  offered |-> tk.offered, fresh |-> TRUE]),
               !.valReply = "none", !.pc = "delay"]

\* mutant of ReturnStep: target and description are assigned to the step
\* itself, which is pushed
ReturnStep_InPlace(tk, step) ==
    [tk EXCEPT !.improvedSteps = Append(@, [step EXCEPT !.target = tk.improvedTarget,
                                                        !.description = tk.improvedDescription]),
               !.log = Append(@, [val |-> tk.val, exec |-> tk.exec,
                                  valGuard |-> tk.valGuard, execGuard |-> tk.execGuard,
                                  offered |-> tk.offered, fresh |-> FALSE]),
               !.valReply = "none", !.pc = "delay"]

\* return { ...step, target, description }; improvedSteps.push; await the
\* delay.  fresh: the pushed step is a new object, not the generated step
ReturnStep(tk, step) ==
    [tk EXCEPT !.improvedSteps = Append(@, [step EXCEPT !.target = tk.improvedTarget,
                                                        !.description = tk.improvedDescription]),
               !.log = Append(@, [val |-> tk.val, exec |-> tk.exec,
                                  valGuard |-> tk.valGuard, execGuard |-> tk.execGuard,
                                       offered |-> tk.offered, fresh |-> TRUE]),
               !.valReply = "none", !.pc = "delay"]

\* mutant of ValidateAndExecute: validateSelector is not awaited, executeStep
\* is issued at once
ValidateAndExecute_NoAwait(tk, step, conn, cl, off) ==
    IF step.action \in {S(<<"click">>), S(<<"fill">>), S(<<"expect">>)}
    THEN Issue(Issue(tk, "valWait", conn, cl, off), "execWait", conn, cl, off)
    ELSE IF step.action = S(<<"wait">>)
    THEN IF step.target # S(<<"#body">>)
         THEN Issue(tk, "valWait", conn, cl, off)
         ELSE Issue(tk, "execWait", conn, cl, off)
    ELSE IF step.action = S(<<"type">>)
    THEN Issue(tk, "valWait", conn, cl, off)
    ELSE ReturnStep(tk, step)

\* executeStepWithMCP after the goto branch: the branch on step.action
ValidateAndExecute(tk, step, conn, cl, off) ==
    IF step.action \in {S(<<"click">>), S(<<"fill">>), S(<<"expect">>)}
    THEN Issue(tk, "valWait", conn, cl, off)
    ELSE IF step.action = S(<<"wait">>)
    THEN IF step.target # S(<<"#body">>)
         THEN Issue(tk, "valWait", conn, cl, off)
         ELSE Issue(tk, "execWait", conn, cl, off)
    ELSE IF step.action = S(<<"type">>)
    THEN Issue(tk, "valWait", conn, cl, off)
    ELSE ReturnStep(tk, step)

\* executeScenarioWithMCP: the loop reaches step i (or ends), and runs
\* executeStepWithMCP up to its first await.  The log line of the loop is
\* outside its try: when it throws, executeScenarioWithMCP rejects and the
\* callback of the scenario catches ("fallback")
StartStep(tk0, steps, i, conn, cl, off, elapsed) ==
    IF i > Len(steps)
    THEN [tk0 EXCEPT !.pc = "done", !.i = i, !.time = <<ToString(elapsed), "ms">>]
    ELSE IF TemplateThrows(steps[i].action) \/ TemplateThrows(steps[i].target)
    THEN [tk0 EXCEPT !.pc = "fallback", !.i = i]
    ELSE LET step == steps[i]
             tk == [tk0 EXCEPT !.i = i, !.improvedTarget = step.target,
                               !.improvedDescription = step.description,
                               !.val = "none", !.exec = "none", !.offered = Undef,
                               !.valReply = "none",
                               !.valGuard = "none", !.execGuard = "none"]
         IN IF i = 1 /\ step.action = S(<<"goto">>)
            THEN Issue(tk, "gotoWait", conn, cl, off)
            ELSE ValidateAndExecute(tk, step, conn, cl, off)

\* what a pending call can come back with: a Client that is not connected, or
\* was closed, rejects
RepliesOf(tk, all) ==
    IF tk.via # 0 /\ clientState[tk.via] = "open" /\ closes.client[tk.via] = 0
    THEN all ELSE {"throw"}

\* description rewritten after a successful click / fill / expect; "throw" when
\* step.description has no replace method
ClickDescription(step, target) ==
    IF step.description.t # "str" THEN [t |-> "throw", v |-> <<>>]
    ELSE LET buttonText == StripPrefix(StripPrefix(step.description.v, <<"click", "on">>), <<"click">>)
         IN S(<<"Successfully", "clicked", "on", "\"">> \o buttonText
              \o <<"\"", "(validated", "selector:">> \o Template(target) \o <<")">>)

FillDescription(step, target) ==
    IF step.description.t # "str" THEN [t |-> "throw", v |-> <<>>]
    ELSE LET fieldName == StripPrefix(StripPrefix(step.description.v, <<"enter">>), <<"fill">>)
         IN S(<<"Successfully", "filled", "\"">> \o fieldName
              \o <<"\"", "field", "(validated", "selector:">> \o Template(target) \o <<")">>)

ExpectDescription(step, target) ==
    S(<<"Successfully", "verified", "element", "exists", "(validated", "selector:">>
      \o Template(target) \o <<")">>)

WaitDescription(step, target) ==
    S(<<"Successfully", "waited", "for", "element", "(validated", "selector:">>
      \o Template(target) \o <<")">>)

TypeDescription(step, target) ==
    S(<<"Successfully", "typed", "text", "(validated", "selector:">>
      \o Template(target) \o <<")">>)

NavigateDescription(url) == S(<<"Successfully", "navigated", "to">> \o Template(url))

\* executeStepWithMCP after executeStep returned `result`: improvedTarget and
\* improvedDescription
AfterExecute(tk, step, result) ==
    LET act == step.action
        desc == CASE act = S(<<"click">>) -> ClickDescription(step, tk.improvedTarget)
                  [] act = S(<<"fill">>) -> FillDescription(step, tk.improvedTarget)
                  [] act = S(<<"expect">>) -> ExpectDescription(step, tk.improvedTarget)
                  [] act = S(<<"wait">>) -> WaitDescription(step, tk.improvedTarget)
                  [] OTHER -> TypeDescription(step, tk.improvedTarget)
    IN IF result.success
       THEN IF desc.t = "throw"
            THEN [tk EXCEPT !.improvedTarget = step.target,
                            !.improvedDescription = step.description, !.exec = "caught"]
            ELSE [tk EXCEPT !.improvedDescription = desc, !.exec = "ok"]
       ELSE IF act \in {S(<<"click">>), S(<<"fill">>), S(<<"expect">>)}
            THEN [tk EXCEPT !.improvedDescription = step.description, !.exec = "failed"]
            ELSE [tk EXCEPT !.exec = "failed"]

\* executeStepWithMCP after validateSelector returned `result`: improvedTarget;
\* offered keeps result.improvedSelector
AfterValidate(tk, result) ==
    IF result.success /\ Truthy(result.improvedSelector)
    THEN [tk EXCEPT !.improvedTarget = result.improvedSelector,
                    !.offered = result.improvedSelector,
                    !.val = IF result.improvedSelector = tk.improvedTarget THEN "same" ELSE "improved"]
    ELSE IF result.success
    THEN [tk EXCEPT !.offered = result.improvedSelector, !.val = "ignored"]
    ELSE [tk EXCEPT !.val = "failed"]

StepsOf(r, k) == run[r].scenarios[k].steps

\* the callback of a scenario rejected: its log line, outside the try, threw
Rejected(r) == \E k \in DOMAIN task[r] : task[r][k].pc = "rejected"

\* the scenario loops of run r go on: while validateSelectorsWithMCP awaits
\* them, and, when it was left because a callback rejected, after the run
\* returned
Running(r) == run[r].pc = (IF Rejected(r) THEN "returned" ELSE "repairing")

\* the first goto step: executeStep('goto', url) returns
GotoReturns(r, k) ==
    /\ Running(r)
    /\ k \in 1..Len(task[r])
    /\ task[r][k].pc = "gotoWait"
    /\ LET tk == task[r][k]
           step == StepsOf(r, k)[tk.i]
       IN \E reply \in RepliesOf(tk, ExecReplies) :
            LET result == IF tk.sent THEN executeStep(S(<<"goto">>), tk.arg, reply) ELSE NotConnected
                tk1 == IF result.success
                       THEN [tk EXCEPT !.improvedDescription = NavigateDescription(Url), !.exec = "ok"]
                       ELSE [tk EXCEPT !.exec = "failed"]
            IN task' = [task EXCEPT ![r][k] = ValidateAndExecute(tk1, step, isConnected, client, offBy)]
    /\ UNCHANGED <<clock, mcpVars, run, geminiVars, unitVars>>

\* validateSelector(step.target) returns; executeStep is called
ValidateReturns(r, k) ==
    /\ Running(r)
    /\ k \in 1..Len(task[r])
    /\ task[r][k].pc = "valWait"
    /\ LET tk == task[r][k]
           step == StepsOf(r, k)[tk.i]
       IN \E reply \in RepliesOf(tk, ValReplies) :
            LET result == IF tk.sent THEN validateSelector(tk.arg, reply) ELSE NotConnected
                tk1 == [AfterValidate(tk, result) EXCEPT
                           !.valReply = IF tk.sent THEN reply ELSE "none"]
            IN task' = [task EXCEPT ![r][k] = Issue(tk1, "execWait", isConnected, client, offBy)]
    /\ UNCHANGED <<clock, mcpVars, run, geminiVars, unitVars>>

\* executeStep(step.action, improvedTarget, step.data) returns; the step is pushed
ExecuteReturns(r, k) ==
    /\ Running(r)
    /\ k \in 1..Len(task[r])
    /\ task[r][k].pc = "execWait"
    /\ LET tk == task[r][k]
           step == StepsOf(r, k)[tk.i]
       IN \E reply \in RepliesOf(tk, ExecReplies) :
            LET result == IF tk.sent THEN executeStep(step.action, tk.arg, reply)
                          ELSE NotConnected
            IN task' = [task EXCEPT ![r][k] = ReturnStep(AfterExecute(tk, step, result), step)]
    /\ UNCHANGED <<clock, mcpVars, run, geminiVars, unitVars>>

\* mutant of DelayElapses: a step whose executeStep call failed is run again
DelayElapses_RetryFailed(r, k) ==
    /\ Running(r)
    /\ k \in 1..Len(task[r])
    /\ task[r][k].pc = "delay"
    /\ task' = [task EXCEPT ![r][k] =
                  StartStep(task[r][k], StepsOf(r, k),
                            IF task[r][k].exec = "failed" THEN task[r][k].i ELSE task[r][k].i + 1,
                            isConnected, client, offBy, clock - run[r].repairStart)]
    /\ UNCHANGED <<clock, mcpVars, run, geminiVars, unitVars>>

\* the delay between steps elapses; the loop goes on with the next step
DelayElapses(r, k) ==
    /\ Running(r)
    /\ k \in 1..Len(task[r])
    /\ task[r][k].pc = "delay"
    /\ task' = [task EXCEPT ![r][k] =
                  StartStep(task[r][k], StepsOf(r, k), task[r][k].i + 1, isConnected, client,
                            offBy, clock - run[r].repairStart)]
    /\ UNCHANGED <<clock, mcpVars, run, geminiVars, unitVars>>


(***************************************************************************)
(* MCPClient.connect / disconnect and LLMCompiler.generateScenarios        *)
(***************************************************************************)
\* mutant of disconnect: the closed Client and transport stay in their fields
disconnect_KeepsFields(r) ==
    /\ closes' = [client |-> IF client # 0 THEN [closes.client EXCEPT ![client] = @ + 1]
                             ELSE closes.client,
                  transport |-> IF transport # 0 THEN [closes.transport EXCEPT ![transport] = @ + 1]
                                ELSE closes.transport]
    /\ client' = client
    /\ transport' = transport
    /\ isConnected' = FALSE
    /\ offBy' = [kind |-> "disconnect", run |-> r]

\* MCPClient.disconnect(), called by run r
disconnect(r) ==
    /\ closes' = [client |-> IF client # 0 THEN [closes.client EXCEPT ![client] = @ + 1]
                             ELSE closes.client,
                  transport |-> IF transport # 0 THEN [closes.transport EXCEPT ![transport] = @ + 1]
                                ELSE closes.transport]
    /\ client' = 0
    /\ transport' = 0
    /\ isConnected' = FALSE
    /\ offBy' = [kind |-> "disconnect", run |-> r]

\* input.runId || `run_${Date.now()}`
RunIdBase(runId, now) == IF Truthy(runId) THEN runId.v ELSE <<"run_", ToString(now)>>

RunIds == {Undef, S(<<"run42">>)}

\* the outcomes of the outbound call a whole run is explored with
RunOutcomes ==
    {FetchOutcome("fetchThrows", <<>>), FetchOutcome("notOk", <<>>),
     FetchOutcome("text", <<"prose">>)}
    \cup {FetchOutcome("text", <<"fenceOpen", o, "fenceClose">>) : o \in ObjNames}

\* generateScenarios is called: input validation, then the outbound call
Start(r, ids, valids) ==
    /\ run[r].pc = "idle"
    /\ \E id \in ids, valid \in valids :
         run' = [run EXCEPT ![r] =
                   IF valid
                   THEN [@ EXCEPT !.pc = "fetching", !.runId = id, !.startTime = clock]
                   ELSE [@ EXCEPT !.pc = "threw", !.runId = id, !.startTime = clock,
                                  !.threw = TRUE]]
    /\ UNCHANGED <<clock, mcpVars, task, geminiVars, unitVars>>

\* generateGeminiScenarios returns; geminiOutput is built; connect() is called
GeminiReturns(r, pool) ==
    /\ run[r].pc = "fetching"
    /\ \E outcome \in pool :
         LET scenarios == generateGeminiScenarios(outcome)
         IN run' = [run EXCEPT ![r] =
                      [@ EXCEPT !.pc = "connecting", !.fetch = outcome.kind,
                                !.scenarios = scenarios,
                                !.improvedScenarios = scenarios,
                                !.geminiOutput =
                                    [NoOutput EXCEPT !.runId = RunIdBase(run[r].runId, clock) \o <<"_gemini">>,
                                                     !.outputs = scenarios,
                                                     !.source = "gemini_only",
                                                     !.stage = "before_mcp_processing"]]]
    /\ transport' = r
    /\ client' = r
    /\ clientState' = [clientState EXCEPT ![r] = "new"]
    /\ UNCHANGED <<clock, isConnected, closes, offBy, task, geminiVars, unitVars>>

\* generateScenarios returns { geminiOutput, mcpOutput, ... }: the locals of
\* run r at its return, after `disconnected` calls of disconnect()
Returned(r, connected, improved, ok, disconnected) ==
    [run EXCEPT ![r] =
        [@ EXCEPT !.pc = "returned",
                  !.connected = connected,
                  !.improvedScenarios = improved,
                  !.mcpValidationSuccessful = ok,
                  !.disconnects = @ + disconnected,
                  !.mcpOutput =
                      [NoOutput EXCEPT !.runId = RunIdBase(run[r].runId, clock) \o <<"_mcp">>,
                                       !.outputs = improved,
                                       !.source = "gemini_plus_mcp",
                                       !.stage = "after_mcp_processing",
                                       !.totalTime = <<ToString(clock - run[r].startTime), "ms">>,
                                       !.mcpValidationSuccessful = ok]]]

\* mutant of Finish: disconnect() only on the success path
Finish_LeakOnFailure(r, connected, improved, ok) ==
    IF ok
    THEN disconnect(r) /\ run' = Returned(r, connected, improved, ok, 1)
    ELSE /\ UNCHANGED <<client, transport, isConnected, closes, offBy>>
         /\ run' = Returned(r, connected, improved, ok, 0)

\* the tail of generateScenarios: finally disconnect(), mcpOutput, return
Finish(r, connected, improved, ok) ==
    /\ disconnect(r)
    /\ run' = Returned(r, connected, improved, ok, 1)

\* the first log line of the callback of a scenario, outside its try, throws
LogThrows(scenario) == TemplateThrows(scenario.name) \/ TemplateThrows(scenario.id)

\* client.connect(transport) resolves (a Client or transport that was closed
\* in the meantime does not connect): connect() returns true and
\* validateSelectorsWithMCP starts every scenario.  When a callback rejects,
\* Promise.all rejects before any reply arrives: validateSelectorsWithMCP
\* throws, the catch of generateScenarios keeps the generated scenarios, and
\* the finally disconnects while the other callbacks go on
ConnectSucceeds(r) ==
    /\ run[r].pc = "connecting"
    /\ closes.client[r] = 0
    /\ closes.transport[r] = 0
    /\ clientState' = [clientState EXCEPT ![r] = "open"]
    /\ task' = [task EXCEPT ![r] =
                  [k \in 1..Len(run[r].scenarios) |->
                     IF LogThrows(run[r].scenarios[k])
                     THEN [NewTask EXCEPT !.pc = "rejected"]
                     ELSE StartStep(NewTask, run[r].scenarios[k].steps, 1, TRUE, client, offBy, 0)]]
    /\ IF \E k \in 1..Len(run[r].scenarios) : LogThrows(run[r].scenarios[k])
       THEN Finish(r, "true", run[r].scenarios, FALSE)
       ELSE /\ isConnected' = TRUE
            /\ run' = [run EXCEPT ![r] = [@ EXCEPT !.pc = "repairing", !.connected = "true",
                                                   !.repairStart = clock]]
            /\ UNCHANGED <<client, transport, closes, offBy>>
    /\ UNCHANGED <<clock, geminiVars, unitVars>>

\* mutant of ConnectFails: the catch of connect() leaves isConnected as it was
ConnectFails_KeepsFlag(r) ==
    /\ run[r].pc = "connecting"
    /\ clientState' = [clientState EXCEPT ![r] = "failed"]
    /\ run' = [run EXCEPT ![r] = [@ EXCEPT !.pc = "notConnected", !.connected = "false"]]
    /\ UNCHANGED <<clock, client, transport, isConnected, offBy, closes, task, geminiVars, unitVars>>

\* client.connect(transport) rejects: the catch of connect() sets
\* isConnected = false and connect() returns false
ConnectFails(r) ==
    /\ run[r].pc = "connecting"
    /\ clientState' = [clientState EXCEPT ![r] = "failed"]
    /\ isConnected' = FALSE
    /\ offBy' = [kind |-> "connectFailed", run |-> r]
    /\ run' = [run EXCEPT ![r] = [@ EXCEPT !.pc = "notConnected", !.connected = "false"]]
    /\ UNCHANGED <<clock, client, transport, closes, task, geminiVars, unitVars>>

\* mutant of SkipRepair: the result of connect() is not looked at, repair starts
SkipRepair_RepairsAnyway(r) ==
    /\ run[r].pc = "notConnected"
    /\ run' = [run EXCEPT ![r] = [@ EXCEPT !.pc = "repairing", !.repairStart = clock]]
    /\ task' = [task EXCEPT ![r] =
                  [k \in 1..Len(run[r].scenarios) |->
                     StartStep(NewTask, run[r].scenarios[k].steps, 1, isConnected, client, offBy, 0)]]
    /\ UNCHANGED <<clock, mcpVars, geminiVars, unitVars>>

\* generateScenarios after connect() returned false: the else branch, finally
SkipRepair(r) ==
    /\ run[r].pc = "notConnected"
    /\ Finish(r, "false", run[r].improvedScenarios, FALSE)
    /\ UNCHANGED <<clock, clientState, task, geminiVars, unitVars>>


\* a finished scenario callback: { ...scenario, steps, timeTakenToCompile },
\* or the scenario itself from its catch
Improved(scenario, tk) ==
    IF tk.pc = "fallback" THEN scenario
    ELSE [scenario EXCEPT !.steps = tk.improvedSteps, !.timeTakenToCompile = S(tk.time)]

\* mutant of RepairDone: the flag tells whether every step was executed
RepairDone_FlagFromSteps(r) ==
    /\ run[r].pc = "repairing"
    /\ \A k \in DOMAIN task[r] : task[r][k].pc \in {"done", "fallback"}
    /\ Finish(r, "true",
              [k \in 1..Len(run[r].scenarios) |-> Improved(run[r].scenarios[k], task[r][k])],
              \A k \in DOMAIN task[r] : \A j \in DOMAIN task[r][k].log :
                  task[r][k].log[j].exec # "failed")
    /\ UNCHANGED <<clock, clientState, task, geminiVars, unitVars>>

\* Promise.all resolves: validateSelectorsWithMCP returns
RepairDone(r) ==
    /\ run[r].pc = "repairing"
    /\ \A k \in DOMAIN task[r] : task[r][k].pc \in {"done", "fallback"}
    /\ Finish(r, "true",
              [k \in 1..Len(run[r].scenarios) |-> Improved(run[r].scenarios[k], task[r][k])],
              TRUE)
    /\ UNCHANGED <<clock, clientState, task, geminiVars, unitVars>>

\* one generateScenarios call
Call(r, ids, valids, pool) ==
    \/ Start(r, ids, valids)
    \/ GeminiReturns(r, pool)
    \/ ConnectSucceeds(r)
    \/ ConnectFails(r)
    \/ SkipRepair(r)
    \/ \E k \in DOMAIN task[r] : GotoReturns(r, k)
    \/ \E k \in DOMAIN task[r] : ValidateReturns(r, k)
    \/ \E k \in DOMAIN task[r] : ExecuteReturns(r, k)
    \/ \E k \in DOMAIN task[r] : DelayElapses(r, k)
    \/ RepairDone(r)

\* one call on one LLMCompiler
Next == Tick \/ Call(1, RunIds, BOOLEAN, RunOutcomes)

Spec == Init /\ [][Next]_vars

\* one call whose every awaited promise settles (the outbound call, connect(),
\* every backend call, every delay timer), over a reply with a scenario whose
\* two steps are both validated and executed, replies with a step or a
\* scenario the loop cannot log, and no reply
FairOutcomes ==
    {FetchOutcome("fetchThrows", <<>>), FetchOutcome("text", <<"O_dup">>),
     FetchOutcome("text", <<"O_objstep">>), FetchOutcome("text", <<"O_objname">>)}

CallFair == Call(1, {Undef}, BOOLEAN, FairOutcomes)

NextFair == Tick \/ CallFair

SpecFair == Init /\ [][NextFair]_vars /\ WF_vars(CallFair)

(***************************************************************************)
(* Two generateScenarios calls on the same LLMCompiler (one MCPClient),    *)
(* overlapping or one after the other                                      *)
(***************************************************************************)
ConcOutcomes ==
    {FetchOutcome("fetchThrows", <<>>), FetchOutcome("text", <<"O_nav">>),
     FetchOutcome("text", <<"O_objname">>)}

NextConc == \E r \in Runs : Call(r, {Undef}, {TRUE}, ConcOutcomes)

SpecConc == Init /\ [][NextConc]_vars

(***************************************************************************)
(* generateGeminiScenarios alone, over every reply up to MaxReplyLen       *)
(***************************************************************************)
AllOutcomes ==
    {FetchOutcome(kind, <<>>) : kind \in FetchKinds \ {"text"}}
    \cup {FetchOutcome("text", reply) : reply \in Replies}

InitGemini ==
    /\ clock = 0
    /\ client = 0
    /\ transport = 0
    /\ isConnected = FALSE
    /\ clientState = [r \in Runs |-> "none"]
    /\ closes = [client |-> [r \in Runs |-> 0], transport |-> [r \in Runs |-> 0]]
    /\ run = [r \in Runs |-> IdleRun]
    /\ task = [r \in Runs |-> <<>>]
    /\ offBy = [kind |-> "init", run |-> 0]
    /\ gOutcome \in AllOutcomes
    /\ gResult = [done |-> FALSE, out |-> <<>>]
    /\ api = NoCalls
    /\ gen = NotCompiled
    /\ req = NoRequest

GeminiCall ==
    /\ ~gResult.done
    /\ gResult' = [done |-> TRUE, out |-> generateGeminiScenarios(gOutcome)]
    /\ UNCHANGED <<clock, mcpVars, run, task, gOutcome, unitVars>>

NextGemini == GeminiCall

SpecGemini == InitGemini /\ [][NextGemini]_vars


(***************************************************************************)
(* MCPClient alone: a caller makes up to MaxCalls calls of connect,        *)
(* executeStep, validateSelector and disconnect on one MCPClient, in any   *)
(* order; connect() is suspended at its await, the other calls run from    *)
(* the call to the return                                                  *)
(***************************************************************************)
MaxCalls == 4

\* the actions a caller passes to executeStep
CallActions == {S(<<a>>) : a \in ExecutableActions \cup {"select", "hover", "drag"}}

\* what the guard (!this.isConnected || !this.client) sees
GuardSees(conn, cl) ==
    IF ~conn THEN "disconnected" ELSE IF cl = 0 THEN "noClient" ELSE "connected"

\* what callTool on Client cl can come back with
ToolReplies(cl, all) ==
    IF clientState[cl] = "open" /\ closes.client[cl] = 0 THEN all ELSE {"throw"}

Called(op) == [api EXCEPT !.seq = @ + 1, !.prev = api.op, !.op = op,
                          !.action = Undef, !.reply = "none", !.guard = "none",
                          !.improvedSelector = Undef]

\* connect() up to await this.client.connect(this.transport)
ApiConnect ==
    /\ api.seq < MaxCalls
    /\ api.pc = "idle"
    /\ api.connects < Cardinality(Runs)
    /\ LET c == api.connects + 1
       IN /\ transport' = c
          /\ client' = c
          /\ clientState' = [clientState EXCEPT ![c] = "new"]
          /\ api' = [Called("connect") EXCEPT !.pc = "connecting", !.connects = c, !.success = FALSE]
    /\ UNCHANGED <<clock, isConnected, closes, offBy, run, task, geminiVars, gen, req>>

\* the await of connect() returns or throws
ApiConnectReturns ==
    /\ api.pc = "connecting"
    /\ LET c == api.connects
       IN \E ok \in {b \in BOOLEAN : b => (closes.client[c] = 0 /\ closes.transport[c] = 0)} :
            /\ clientState' = [clientState EXCEPT ![c] = IF ok THEN "open" ELSE "failed"]
            /\ isConnected' = ok
            /\ offBy' = IF ok THEN offBy ELSE [kind |-> "connectFailed", run |-> 0]
            /\ api' = [api EXCEPT !.pc = "idle", !.success = ok]
    /\ UNCHANGED <<clock, client, transport, closes, run, task, geminiVars, gen, req>>

\* executeStep(action, target, data), from the call to the return
ApiExecuteStep(action) ==
    /\ api.seq < MaxCalls
    /\ LET sent == isConnected /\ client # 0
           tool == sent /\ action \in {S(<<a>>) : a \in ExecutableActions}
       IN \E reply \in (IF tool THEN ToolReplies(client, ExecReplies) ELSE {"none"}) :
            LET result == IF sent THEN executeStep(action, S(<<"#login">>), reply) ELSE NotConnected
            IN api' = [Called("executeStep") EXCEPT
                          !.action = action, !.reply = reply,
                          !.guard = GuardSees(isConnected, client),
                          !.success = result.success,
                          !.backendCalls = @ + (IF tool THEN 1 ELSE 0)]
    /\ UNCHANGED <<clock, mcpVars, run, task, geminiVars, gen, req>>

\* validateSelector(selector), from the call to the return
ApiValidateSelector ==
    /\ api.seq < MaxCalls
    /\ LET sent == isConnected /\ client # 0
       IN \E reply \in (IF sent THEN ToolReplies(client, ValReplies) ELSE {"none"}) :
            LET result == IF sent THEN validateSelector(S(<<"#login">>), reply) ELSE NotConnected
            IN api' = [Called("validateSelector") EXCEPT
                          !.reply = reply,
                          !.guard = GuardSees(isConnected, client),
                          !.success = result.success,
                          !.improvedSelector = result.improvedSelector,
                          !.backendCalls = @ + (IF sent THEN 1 ELSE 0)]
    /\ UNCHANGED <<clock, mcpVars, run, task, geminiVars, gen, req>>

\* disconnect()
ApiDisconnect ==
    /\ api.seq < MaxCalls
    /\ disconnect(0)
    /\ api' = [Called("disconnect") EXCEPT !.success = TRUE]
    /\ UNCHANGED <<clock, clientState, run, task, geminiVars, gen, req>>

NextClient ==
    \/ ApiConnect
    \/ ApiConnectReturns
    \/ \E action \in CallActions : ApiExecuteStep(action)
    \/ ApiValidateSelector
    \/ ApiDisconnect

SpecClient == Init /\ [][NextClient]_vars


(***************************************************************************)
(* generatePlaywrightTest: the emitted source is a sequence of lines, a    *)
(* line a sequence of tokens.  A selector is a sequence of tokens too: the *)
(* prefixes role= and text=, the brackets, the quotes and name= are tokens *)
(* of their own, so that the patterns of the code can be applied to them.  *)
(* The indent of a line and the braces of the test header, of its closing  *)
(* line and of the name option are left out of the tokens.                 *)
(***************************************************************************)
Brackets == {"[", "]"}
Quotes == {"'", "\""}

\* s.startsWith(prefix), prefix one token
StartsWith(s, prefix) == Len(s) > 0 /\ s[1] = prefix

\* target.match of role=, one or more characters that are no bracket, and
\* optionally a bracketed group of one or more characters that are not the
\* closing bracket.  role is group 1, attrs group 2 (empty: undefined)
RoleMatch(target) ==
    LET starts == {i \in 1..(Len(target) - 1) :
                      target[i] = "role=" /\ target[i + 1] \notin Brackets}
    IN IF starts = {} THEN [found |-> FALSE, role |-> <<>>, attrs |-> <<>>]
       ELSE LET i == Min(starts)
                e == Max({j \in (i + 1)..Len(target) :
                            \A m \in (i + 1)..j : target[m] \notin Brackets})
                closers == {c \in (e + 2)..Len(target) : target[c] = "]"}
                attrs == IF e < Len(target) /\ target[e + 1] = "[" /\ closers # {}
                              /\ Min(closers) > e + 2
                         THEN SubSeq(target, e + 2, Min(closers) - 1)
                         ELSE <<>>
            IN [found |-> TRUE, role |-> SubSeq(target, i + 1, e), attrs |-> attrs]

\* attrs.replace of name=, a quote, one or more characters that are no quote
\* and a quote, by those characters
NameOf(attrs) ==
    LET hits == {i \in 1..(Len(attrs) - 3) :
                    /\ attrs[i] = "name="
                    /\ attrs[i + 1] \in Quotes
                    /\ attrs[i + 2] \notin Quotes
                    /\ \E j \in (i + 3)..Len(attrs) : attrs[j] \in Quotes}
    IN IF hits = {} THEN attrs
       ELSE LET i == Min(hits)
                j == Min({m \in (i + 3)..Len(attrs) : attrs[m] \in Quotes})
            IN SubSeq(attrs, 1, i - 1) \o SubSeq(attrs, i + 2, j - 1)
                 \o SubSeq(attrs, j + 1, Len(attrs))

\* target.replace('text=', ''): the first occurrence is dropped
DropText(target) ==
    LET hits == {i \in 1..Len(target) : target[i] = "text="}
    IN IF hits = {} THEN target
       ELSE SubSeq(target, 1, Min(hits) - 1) \o SubSeq(target, Min(hits) + 1, Len(target))

\* word is a substring of the token
TokenIncludes(tok, word) ==
    \/ tok = word
    \/ <<tok, word>> \in {<<"invisible", "visible">>, <<"context", "text">>}

\* data.includes(word)
Includes(data, word) == \E i \in 1..Len(data) : TokenIncludes(data[i], word)

\* data.match of contains, a space, a quote, one or more characters that are
\* no quote, and a quote: the characters between the quotes, <<>> for no match
ContainsMatch(data) ==
    LET hits == {i \in 1..(Len(data) - 3) :
                    /\ data[i] = "contains"
                    /\ data[i + 1] = "'"
                    /\ data[i + 2] # "'"
                    /\ \E j \in (i + 3)..Len(data) : data[j] = "'"}
    IN IF hits = {} THEN <<>>
       ELSE LET i == Min(hits)
                j == Min({m \in (i + 3)..Len(data) : data[m] = "'"})
            IN SubSeq(data, i + 2, j - 1)

\* scenario.name with every character that is no letter, digit or white space
\* removed, then every run of white space replaced by one space.  A name is
\* a sequence of words, punctuation tokens and " " tokens
Punctuation == {"-", ":", "'", "!"}

RECURSIVE SqueezeSpaces(_)
SqueezeSpaces(toks) ==
    IF Len(toks) < 2 THEN toks
    ELSE IF toks[1] = " " /\ toks[2] = " " THEN SqueezeSpaces(Tail(toks))
    ELSE <<toks[1]>> \o SqueezeSpaces(Tail(toks))

IsNoPunctuation(tok) == tok \notin Punctuation

TestName(name) == SqueezeSpaces(SelectSeq(name, IsNoPunctuation))

\* '...': a value embedded between single quotes, as the templates do
Quoted(toks) == <<"'">> \o toks \o <<"'">>

ImportLine == <<"import", "test,", "expect", "from", "'", "@playwright/test", "'", ";">>
TestLine(testName) == <<"test(">> \o Quoted(testName) \o <<",", "async", "(page)", "=>">>
CloseLine == <<");">>
Comment(toks) == <<"//">> \o toks

GotoStatement(target) == <<"await", "page.goto(">> \o Quoted(target) \o <<");">>
LocatorCall(target, call) == <<"await", "page.locator(">> \o Quoted(target) \o <<").">> \o call
RoleCall(role, call) == <<"await", "page.getByRole(">> \o Quoted(role) \o <<").">> \o call
RoleNameCall(role, name, call) ==
    <<"await", "page.getByRole(">> \o Quoted(role) \o <<",", "name:">> \o Quoted(name)
      \o <<").">> \o call
TextCall(text, call) == <<"await", "page.getByText(">> \o Quoted(text) \o <<").">> \o call
ClickCall == <<"click();">>
FillCall(data) == <<"fill(">> \o Quoted(Template(OrElse(data, S(<<>>)))) \o <<");">>
VisibleStatement(target) ==
    <<"await", "expect(", "page.locator(">> \o Quoted(target) \o <<")", ").toBeVisible();">>
ContainTextStatement(target, text) ==
    <<"await", "expect(", "page.locator(">> \o Quoted(target) \o <<")", ").toContainText(">>
      \o Quoted(text) \o <<");">>
WaitStatement(target) == <<"await", "page.waitForSelector(">> \o Quoted(target) \o <<");">>

\* the lines of one step, or the exception it raises
Lines(lines) == [threw |-> FALSE, lines |-> lines]
Thrown == [threw |-> TRUE, lines |-> <<>>]

\* case 'expect' (the same in both servers); data.includes of a number is no
\* function
ExpectLines(step) ==
    IF Truthy(step.data) /\ step.data.t # "str" THEN Thrown
    ELSE LET data == step.data.v
             target == Template(step.target)
         IN Lines(<< Comment(<<"Verify", "element">>),
                     IF Truthy(step.data) /\ Includes(data, "visible")
                     THEN VisibleStatement(target)
                     ELSE IF Truthy(step.data) /\ Includes(data, "text")
                             /\ ContainsMatch(data) # <<>>
                     THEN ContainTextStatement(target, ContainsMatch(data))
                     ELSE VisibleStatement(target) >>)


\* the role-first branch of a click: getByRole with or without the name
RoleClick(m) ==
    IF NameOf(m.attrs) # <<>>
    THEN RoleNameCall(m.role, NameOf(m.attrs), ClickCall)
    ELSE RoleCall(m.role, ClickCall)

\* mutant of StepLines_simple: a click resolves a role expression under every
\* selector strategy
StepLines_simple_RoleAlways(step, options) ==
    LET action == step.action.v
        target == Template(step.target)
        roleFirst == options.selectorStrategy = "role-first" /\ StartsWith(target, "role=")
        m == RoleMatch(target)
    IN CASE action = <<"goto">> ->
              Lines(<<Comment(<<"Navigate", "to", "the", "page">>), GotoStatement(target)>>)
         [] action = <<"click">> ->
              Lines(<< Comment(<<"Click", "on", "element">>),
                       IF StartsWith(target, "role=")
                       THEN IF m.found THEN RoleClick(m) ELSE LocatorCall(target, ClickCall)
                       ELSE IF StartsWith(target, "text=")
                       THEN TextCall(DropText(target), ClickCall)
                       ELSE LocatorCall(target, ClickCall) >>)
         [] action \in {<<"fill">>, <<"type">>} ->
              Lines(<< Comment(<<"Fill", "input", "field">>),
                       IF roleFirst /\ m.found /\ NameOf(m.attrs) # <<>>
                       THEN RoleNameCall(m.role, NameOf(m.attrs), FillCall(step.data))
                       ELSE LocatorCall(target, FillCall(step.data)) >>)
         [] action = <<"expect">> -> ExpectLines(step)
         [] action = <<"wait">> ->
              Lines(<<Comment(<<"Wait", "for", "element">>), WaitStatement(target)>>)
         [] OTHER ->
              Lines(<< Comment(action \o <<":">> \o Template(step.description)),
                       LocatorCall(target, action \o <<"();">>) >>)

\* the simple server: the lines of one step
StepLines_simple(step, options) ==
    LET action == step.action.v
        target == Template(step.target)
        roleFirst == options.selectorStrategy = "role-first" /\ StartsWith(target, "role=")
        m == RoleMatch(target)
    IN CASE action = <<"goto">> ->
              Lines(<<Comment(<<"Navigate", "to", "the", "page">>), GotoStatement(target)>>)
         [] action = <<"click">> ->
              Lines(<< Comment(<<"Click", "on", "element">>),
                       IF roleFirst
                       THEN IF m.found THEN RoleClick(m) ELSE LocatorCall(target, ClickCall)
                       ELSE IF StartsWith(target, "text=")
                       THEN TextCall(DropText(target), ClickCall)
                       ELSE LocatorCall(target, ClickCall) >>)
         [] action \in {<<"fill">>, <<"type">>} ->
              Lines(<< Comment(<<"Fill", "input", "field">>),
                       IF roleFirst /\ m.found /\ NameOf(m.attrs) # <<>>
                       THEN RoleNameCall(m.role, NameOf(m.attrs), FillCall(step.data))
                       ELSE LocatorCall(target, FillCall(step.data)) >>)
         [] action = <<"expect">> -> ExpectLines(step)
         [] action = <<"wait">> ->
              Lines(<<Comment(<<"Wait", "for", "element">>), WaitStatement(target)>>)
         [] OTHER ->
              Lines(<< Comment(action \o <<":">> \o Template(step.description)),
                       LocatorCall(target, action \o <<"();">>) >>)

\* the combined API server: the lines of one step
StepLines_combined(step, options) ==
    LET action == step.action.v
        target == Template(step.target)
        roleFirst == options.selectorStrategy = "role-first" /\ StartsWith(target, "role=")
        m == RoleMatch(target)
    IN CASE action = <<"goto">> ->
              Lines(<<Comment(<<"Navigate", "to", "the", "page">>), GotoStatement(target)>>)
         [] action = <<"fill">> ->
              Lines(<< Comment(<<"Fill", "input", "field">>),
                       IF roleFirst
                       THEN IF m.found
                            THEN IF NameOf(m.attrs) # <<>>
                                 THEN RoleNameCall(m.role, NameOf(m.attrs), FillCall(step.data))
                                 ELSE RoleCall(m.role, FillCall(step.data))
                            ELSE LocatorCall(target, FillCall(step.data))
                       ELSE LocatorCall(target, FillCall(step.data)) >>)
         [] action = <<"click">> ->
              Lines(<< Comment(<<"Click", "on", "element">>),
                       IF roleFirst
                       THEN IF m.found THEN RoleClick(m)
                            ELSE IF StartsWith(target, "text=")
                            THEN TextCall(DropText(target), ClickCall)
                            ELSE LocatorCall(target, ClickCall)
                       ELSE IF StartsWith(target, "text=")
                       THEN TextCall(DropText(target), ClickCall)
                       ELSE LocatorCall(target, ClickCall) >>)
         [] action = <<"expect">> -> ExpectLines(step)
         [] OTHER ->
              Lines(<< Comment(<<"Unknown", "action:">> \o action),
                       Comment(Template(step.description)) >>)

\* mutant of JoinSteps: the steps are emitted last to first
RECURSIVE JoinSteps_Reversed(_)
JoinSteps_Reversed(blocks) ==
    IF blocks = <<>> THEN <<>>
    ELSE IF Len(blocks) = 1 THEN blocks[1].lines
    ELSE JoinSteps_Reversed(Tail(blocks)) \o <<<<>>>> \o blocks[1].lines

\* scenario.steps.forEach: the lines of the steps in order, an empty line
\* after every step but the last
RECURSIVE JoinSteps(_)
JoinSteps(blocks) ==
    IF blocks = <<>> THEN <<>>
    ELSE IF Len(blocks) = 1 THEN blocks[1].lines
    ELSE blocks[1].lines \o <<<<>>>> \o JoinSteps(Tail(blocks))

\* the whole file, or the exception of the first step that throws
TestFile(scenario, blocks) ==
    IF \E i \in 1..Len(blocks) : blocks[i].threw THEN Thrown
    ELSE Lines(<<ImportLine, <<>>, TestLine(TestName(scenario.name.v))>>
               \o JoinSteps(blocks) \o <<CloseLine>>)

\* generatePlaywrightTest of the simple server
generatePlaywrightTest_simple(scenario, options) ==
    TestFile(scenario, [i \in 1..Len(scenario.steps) |->
                           StepLines_simple(scenario.steps[i], options)])

\* generatePlaywrightTest of the combined API server
generatePlaywrightTest_combined(scenario, options) ==
    TestFile(scenario, [i \in 1..Len(scenario.steps) |->
                           StepLines_combined(scenario.steps[i], options)])


(***************************************************************************)
(* generatePlaywrightTest alone, over every scenario of up to MaxSteps     *)
(* steps drawn from SampleSteps, the scenario of the round trip, and both  *)
(* selector strategies                                                     *)
(***************************************************************************)
MaxSteps == 2

RoleButtonLogin == <<"role=", "button", "[", "name=", "'", "Login", "'", "]">>
RoleTextbox == <<"role=", "textbox">>

SampleSteps ==
    { RawStep(S(<<"goto">>), S(<<"https://x.test">>), Undef, S(<<"open", "page">>)),
      RawStep(S(<<"click">>), S(<<"#login">>), Undef, S(<<"click", "Login">>)),
      RawStep(S(<<"click">>), S(RoleButtonLogin), Undef, S(<<"click", "Login">>)),
      RawStep(S(<<"click">>), S(RoleTextbox), Undef, S(<<"focus", "box">>)),
      RawStep(S(<<"click">>), S(<<"role=", "[", "x", "]">>), Undef, S(<<"click", "x">>)),
      RawStep(S(<<"click">>), S(<<"text=", "Sign", "in">>), Undef, S(<<"sign", "in">>)),
      RawStep(S(<<"fill">>), S(<<"#user">>), S(<<"bob">>), S(<<"enter", "username">>)),
      RawStep(S(<<"fill">>), S(RoleButtonLogin), S(<<"bob">>), S(<<"enter", "username">>)),
      RawStep(S(<<"fill">>), S(RoleTextbox), Undef, S(<<"clear", "box">>)),
      RawStep(S(<<"fill">>), S(<<"text=", "Sign", "in">>), Num5, S(<<"enter", "five">>)),
      RawStep(S(<<"type">>), S(<<"#q">>), S(<<"tla">>), S(<<"type", "query">>)),
      RawStep(S(<<"expect">>), S(<<"#welcome">>), S(<<"visible">>), S(<<"see", "welcome">>)),
      RawStep(S(<<"expect">>), S(<<"#msg">>), S(<<"text", "contains", "'", "Hello", "'">>),
              S(<<"see", "greeting">>)),
      RawStep(S(<<"expect">>), S(<<"#msg">>), S(<<"text">>), S(<<"see", "text">>)),
      RawStep(S(<<"expect">>), S(<<"#msg">>), Undef, S(<<"see", "message">>)),
      RawStep(S(<<"expect">>), S(<<"#count">>), Num5, S(<<"see", "count">>)),
      RawStep(S(<<"wait">>), S(<<"#spinner">>), Undef, S(<<"wait", "spinner">>)),
      RawStep(S(<<"hover">>), S(<<"#menu">>), Undef, S(<<"hover", "menu">>)) }

\* goto X, click S1, fill S2 with D, expect S3 visible
RoundTripSteps ==
    << RawStep(S(<<"goto">>), S(<<"https://x.test">>), Undef, S(<<"open", "page">>)),
       RawStep(S(<<"click">>), S(<<"#login">>), Undef, S(<<"click", "Login">>)),
       RawStep(S(<<"fill">>), S(<<"#user">>), S(<<"bob">>), S(<<"enter", "username">>)),
       RawStep(S(<<"expect">>), S(<<"#welcome">>), S(<<"visible">>), S(<<"see", "welcome">>)) >>

SampleNames ==
    { S(<<"Login">>),
      S(<<"Failed", " ", "Login", " ", "-", " ", "Incorrect", " ", "Password">>) }

SampleScenarios ==
    {[name |-> name, steps |-> steps] :
        name \in SampleNames,
        steps \in UNION {[1..n -> SampleSteps] : n \in 0..MaxSteps} \cup {RoundTripSteps}}

SelectorStrategies == {"role-first", "css"}

InitCompile ==
    /\ clock = 0
    /\ client = 0
    /\ transport = 0
    /\ isConnected = FALSE
    /\ clientState = [r \in Runs |-> "none"]
    /\ closes = [client |-> [r \in Runs |-> 0], transport |-> [r \in Runs |-> 0]]
    /\ run = [r \in Runs |-> IdleRun]
    /\ task = [r \in Runs |-> <<>>]
    /\ offBy = [kind |-> "init", run |-> 0]
    /\ gOutcome = FetchOutcome("fetchThrows", <<>>)
    /\ gResult = [done |-> FALSE, out |-> <<>>]
    /\ api = NoCalls
    /\ gen \in {[NotCompiled EXCEPT !.scenario = scenario,
                                    !.options = [selectorStrategy |-> strategy]] :
                  scenario \in SampleScenarios, strategy \in SelectorStrategies}
    /\ req = NoRequest

\* both servers compile the scenario
Compile ==
    /\ ~gen.done
    /\ gen' = [gen EXCEPT !.done = TRUE,
                          !.simple = generatePlaywrightTest_simple(gen.scenario, gen.options),
                          !.combined = generatePlaywrightTest_combined(gen.scenario, gen.options)]
    /\ UNCHANGED <<clock, mcpVars, run, task, geminiVars, api, req>>

NextCompile == Compile

SpecCompile == InitCompile /\ [][NextCompile]_vars


(***************************************************************************)
(* The combined API server: POST /api/v1/generate.  The handler is         *)
(* suspended at the outbound call; from the reply on it runs to its        *)
(* response without another await that matters (the file writes are        *)
(* synchronous).  Requests are served one after the other.                 *)
(***************************************************************************)
MaxRequests == 2

ALLOWED_ACTIONS == {"goto", "fill", "click", "expect"}

\* validateScenarioActions on a parsed object.  A scenarios value that is a
\* string is iterated character by character, and a character has no steps
validateScenarioActions_FirstOnly(obj) ==
    IF obj.scen # "array" THEN FALSE
    ELSE \A k \in 1..Len(obj.list) :
            k = 1 =>
              /\ obj.list[k].hasSteps
              /\ \A j \in 1..Len(obj.list[k].steps) :
                   obj.list[k].steps[j].action \in {S(<<a>>) : a \in ALLOWED_ACTIONS}

validateScenarioActions(obj) ==
    IF obj.scen # "array" THEN FALSE
    ELSE \A k \in 1..Len(obj.list) :
            /\ obj.list[k].hasSteps
            /\ \A j \in 1..Len(obj.list[k].steps) :
                 obj.list[k].steps[j].action \in {S(<<a>>) : a \in ALLOWED_ACTIONS}

\* content.match of the object pattern (greedy: first open brace to last close
\* brace) and JSON.parse: the name of the parsed object, or "throw"
MatchJson(content) ==
    LET firsts == {k \in 1..Len(content) : HasOpenBrace(content[k])}
        lasts == {k \in 1..Len(content) : HasCloseBrace(content[k])}
    IN IF firsts = {} \/ lasts = {} THEN "throw"
       ELSE IF Min(firsts) = Max(lasts) /\ content[Min(firsts)] \in ObjNames
            THEN content[Min(firsts)]
       ELSE "throw"

\* the text of the first candidate: absent, or a reply of one segment
Contents == {<<>>} \cup {<<seg>> : seg \in Segments}

\* what the two writeFileSync of one scenario do
DiskOutcomes == {"ok", "specFails", "deflakeFails"}

\* the compilation loop over the scenarios from position k on; acc carries the
\* results and the files written so far, disk[k] what the writes of scenario k
\* do.  scenario.name.replace throws when the name is no string.  A name that
\* no template literal can convert makes the log line of the try block throw
\* and then the log line of its catch: the loop ends there (aborted)
RECURSIVE CompileLoop(_, _, _, _)
CompileLoop(list, k, disk, acc) ==
    IF k > Len(list) THEN acc
    ELSE IF TemplateThrows(list[k].name) THEN [acc EXCEPT !.aborted = TRUE]
    ELSE LET scenario == list[k]
             testCode == IF scenario.name.t # "str" THEN Thrown
                         ELSE generatePlaywrightTest_combined(
                                  scenario, [selectorStrategy |-> "role-first"])
             specWritten == ~testCode.threw /\ disk[k] # "specFails"
             deflakeWritten == specWritten /\ disk[k] = "ok"
             next == [successful |-> IF deflakeWritten THEN Append(acc.successful, k)
                                     ELSE acc.successful,
                      failed |-> IF deflakeWritten THEN acc.failed ELSE Append(acc.failed, k),
                      spec |-> acc.spec + (IF specWritten THEN 1 ELSE 0),
                      deflake |-> acc.deflake + (IF deflakeWritten THEN 1 ELSE 0),
                      aborted |-> FALSE]
         IN CompileLoop(list, k + 1, disk, next)

\* a request arrives; the handler awaits the outbound call
GenerateRequest ==
    /\ req.pc \in {"idle", "responded"}
    /\ req.n < MaxRequests
    /\ req' = [NoRequest EXCEPT !.pc = "fetching", !.n = req.n + 1, !.disk = req.disk]
    /\ UNCHANGED <<clock, mcpVars, run, task, geminiVars, api, gen>>

Responded(status, content, parsed, wrote, results, total) ==
    [req EXCEPT !.pc = "responded", !.status = status, !.content = content,
                !.parsed = parsed, !.wrote = wrote,
                !.disk = [json |-> @.json + wrote.json, spec |-> @.spec + wrote.spec,
                          deflake |-> @.deflake + wrote.deflake],
                !.successful = results.successful, !.failed = results.failed,
                !.totalScenarios = total]

NothingWritten == [json |-> 0, spec |-> 0, deflake |-> 0]
NoResults == [successful |-> <<>>, failed |-> <<>>, spec |-> 0, deflake |-> 0,
              aborted |-> FALSE]

\* the outbound call returns: the rest of the handler
GenerateResponds(kind, content, jsonSaved, disk) ==
    /\ req.pc = "fetching"
    /\ req' =
         IF kind # "text"
         THEN Responded(500, <<>>, "none", NothingWritten, NoResults, 0)
         ELSE LET matched == MatchJson(content)
                  parsed == IF matched = "throw" THEN "O_empty" ELSE matched
                  list == Objects(parsed).list
              IN IF ~validateScenarioActions(Objects(parsed))
                 THEN Responded(500, content, parsed, NothingWritten, NoResults, 0)
                 ELSE IF ~jsonSaved
                 THEN Responded(500, content, parsed, NothingWritten, NoResults, 0)
                 ELSE LET results == CompileLoop(list, 1, disk, NoResults)
                          wrote == [json |-> 1, spec |-> results.spec,
                                    deflake |-> results.deflake]
                      IN IF results.aborted
                         THEN Responded(500, content, parsed, wrote, NoResults, 0)
                         ELSE Responded(200, content, parsed, wrote, results, Len(list))
    /\ UNCHANGED <<clock, mcpVars, run, task, geminiVars, api, gen>>

NextApi ==
    \/ GenerateRequest
    \/ \E kind \in {"fetchThrows", "notOk", "text"}, content \in Contents,
          jsonSaved \in BOOLEAN, disk \in [1..2 -> DiskOutcomes] :
            GenerateResponds(kind, content, jsonSaved, disk)

SpecApi == Init /\ [][NextApi]_vars


(***************************************************************************)
(* Properties                                                              *)
(***************************************************************************)
Selectors == {S(<<a>>) : a \in {"click", "fill", "expect", "type", "wait"}}

\* out has the scenarios of inp, position by position, each with the steps of
\* its input scenario, position by position
SameShape(inp, out) ==
    /\ Len(out) = Len(inp)
    /\ \A k \in 1..Len(inp) :
         /\ k <= Len(out)
         /\ out[k].id = inp[k].id
         /\ Len(out[k].steps) = Len(inp[k].steps)
         /\ \A j \in 1..Len(inp[k].steps) :
              j <= Len(out[k].steps) => out[k].steps[j].action = inp[k].steps[j].action

\* C1: whatever the scenario list and the backend's answers, nothing after the
\* connect attempt throws, and the post-repair list has the scenarios of the
\* input in the same order (same ids), each with as many steps, in the same
\* order, as its input scenario.
C1_RepairTotal ==
    \A r \in Runs :
        /\ run[r].threw => run[r].connected = "none"
        /\ run[r].pc = "returned" =>
              /\ SameShape(run[r].scenarios, run[r].mcpOutput.outputs)
              /\ SameShape(run[r].scenarios, run[r].improvedScenarios)

\* a run that repaired two scenarios, with a failed validation and a failed
\* execution among its steps
C1_Witness ==
    /\ run[1].pc = "returned"
    /\ run[1].connected = "true"
    /\ Len(run[1].mcpOutput.outputs) = 2
    /\ \E k \in DOMAIN task[1] : \E j \in DOMAIN task[1][k].log : task[1][k].log[j].exec = "failed"
    /\ \E k \in DOMAIN task[1] : \E j \in DOMAIN task[1][k].log : task[1][k].log[j].val = "failed"

\* C2: when connect() returned false the post-repair scenarios are the
\* generated ones in every field, no validateSelector or executeStep call is
\* issued, and mcpValidationSuccessful is false.
C2_ConnectFalse ==
    \A r \in Runs :
        run[r].connected = "false" =>
            /\ run[r].improvedScenarios = run[r].scenarios
            /\ ~run[r].mcpValidationSuccessful
            /\ \A k \in DOMAIN task[r] : task[r][k].calls = 0
            /\ run[r].pc = "returned" =>
                  /\ run[r].mcpOutput.outputs = run[r].geminiOutput.outputs
                  /\ run[r].mcpOutput.outputs = run[r].scenarios
                  /\ ~run[r].mcpOutput.mcpValidationSuccessful

\* a run over two scenarios that returned after connect() returned false
C2_Witness ==
    /\ run[1].pc = "returned"
    /\ run[1].connected = "false"
    /\ Len(run[1].scenarios) = 2
    /\ Len(run[1].mcpOutput.outputs) = 2

\* C3: a click, fill, expect, type or wait step whose executeStep call reported
\* failure keeps the target and the description of the input step, whatever
\* validateSelector returned for it.
C3_ExecFailureKeepsStep ==
    \A r \in Runs : \A k \in DOMAIN task[r] : \A j \in DOMAIN task[r][k].log :
        (task[r][k].log[j].exec = "failed" /\ StepsOf(r, k)[j].action \in Selectors) =>
            /\ task[r][k].improvedSteps[j].target = StepsOf(r, k)[j].target
            /\ task[r][k].improvedSteps[j].description = StepsOf(r, k)[j].description

\* C4: a run that reached the connect attempt calls disconnect() exactly once
\* by the time it returns, whether connect() returned true or false, and never
\* before.
C4_DisconnectOnce ==
    \A r \in Runs :
        /\ run[r].pc = "returned" => run[r].disconnects = 1
        /\ run[r].pc # "returned" => run[r].disconnects = 0
        /\ run[r].connected # "none" /\ run[r].pc \notin {"notConnected", "repairing"}
              => run[r].pc = "returned"

\* both exit paths: one run returned after connect() returned true, the other
\* after it returned false
C4_Witness ==
    /\ run[1].pc = "returned" /\ run[1].connected = "true" /\ run[1].disconnects = 1
    /\ Len(run[1].scenarios) = 1
    /\ run[2].pc = "returned" /\ run[2].connected = "false" /\ run[2].disconnects = 1

\* C5: no call of validateSelector or executeStep of one run is refused with
\* 'Not connected' because another run on the same LLMCompiler disconnected
\* the session.
C5_SessionNotShared ==
    \A r \in Runs : \A k \in DOMAIN task[r] : ~task[r][k].lost


\* no segment of the reply is the text of a JSON object with a scenarios array
NoScenariosArray(reply) ==
    \A i \in DOMAIN reply : reply[i] \in ObjNames => Objects(reply[i]).scen # "array"

\* C6: for a reply that is not JSON, is malformed, or carries only objects
\* without a scenarios array, generateGeminiScenarios returns the empty list
\* (it returns: nothing is thrown).
C6_MalformedGivesEmpty ==
    (gResult.done /\ gOutcome.kind = "text" /\ NoScenariosArray(gOutcome.reply))
        => gResult.out = <<>>

\* the reply is a fenced object without a scenarios key, followed by a stray brace
C6_Witness ==
    /\ gResult.done
    /\ gOutcome.kind = "text"
    /\ gOutcome.reply = <<"fenceOpen", "O_none", "rbrace">>
    /\ gResult.out = <<>>

\* the reply is exactly one JSON object whose scenarios array holds scenarios
\* that each have a steps array
CleanArrayReply(reply) ==
    /\ Len(reply) = 1
    /\ reply[1] \in ObjNames
    /\ Objects(reply[1]).scen = "array"
    /\ \A k \in DOMAIN Objects(reply[1]).list : Objects(reply[1]).list[k].hasSteps

\* C7: for a reply with a valid scenarios array, generateGeminiScenarios
\* returns as many scenarios as the array holds, and every step of every
\* returned scenario has a recognized action.
C7_ValidArrayMapped ==
    (gResult.done /\ gOutcome.kind = "text" /\ CleanArrayReply(gOutcome.reply)) =>
        /\ Len(gResult.out) = Len(Objects(gOutcome.reply[1]).list)
        /\ \A k \in DOMAIN gResult.out : \A j \in DOMAIN gResult.out[k].steps :
             gResult.out[k].steps[j].action \in {S(<<a>>) : a \in RecognizedActions}

TransportFailures == {"fetchThrows", "notOk"}

\* C8 as stated: a transport-level failure of the outbound call propagates to
\* the caller of generateScenarios, and connect() is not attempted.
C8_TransportFailurePropagates ==
    \A r \in Runs : run[r].fetch \in TransportFailures => run[r].pc = "threw"

\* C8 as amended: after a transport-level failure of the outbound call nothing
\* is thrown; the run goes on with the empty scenario list, attempts connect(),
\* issues no validateSelector or executeStep call, and returns both snapshots
\* with no scenarios.
C8_TransportFailureGivesEmpty ==
    \A r \in Runs :
        run[r].fetch \in TransportFailures =>
            /\ ~run[r].threw
            /\ run[r].scenarios = <<>>
            /\ run[r].pc \in {"connecting", "notConnected", "repairing", "returned"}
            /\ clientState[r] # "none"
            /\ \A k \in DOMAIN task[r] : task[r][k].calls = 0
            /\ run[r].pc = "returned" =>
                  /\ run[r].geminiOutput.outputs = <<>>
                  /\ run[r].mcpOutput.outputs = <<>>

\* a run whose outbound call returned a non-OK status, returned after a
\* successful connect()
C8_Witness ==
    /\ run[1].fetch = "notOk"
    /\ run[1].pc = "returned"
    /\ run[1].connected = "true"
    /\ run[1].mcpValidationSuccessful

Last(seq) == seq[Len(seq)]
Front(seq) == SubSeq(seq, 1, Len(seq) - 1)

\* C9: the two snapshots of a run carry the same base id, suffixed _gemini and
\* _mcp, also when the base is synthesized from the clock.
C9_RunIdsPaired ==
    \A r \in Runs :
        run[r].pc = "returned" =>
            /\ Last(run[r].geminiOutput.runId) = "_gemini"
            /\ Last(run[r].mcpOutput.runId) = "_mcp"
            /\ Front(run[r].geminiOutput.runId) = Front(run[r].mcpOutput.runId)

Waiting == {"gotoWait", "valWait", "execWait"}

\* what the pending call of a suspended scenario callback saw of the session
PendingGuard(tk) == IF tk.pc = "valWait" THEN tk.valGuard ELSE tk.execGuard

\* a call made while the session was not connected went to no backend, and
\* came back with success = false
C10_RefusedWhileDisconnected ==
    \A r \in Runs : \A k \in DOMAIN task[r] :
        LET tk == task[r][k]
        IN /\ tk.pc \in Waiting =>
                 /\ tk.sent <=> PendingGuard(tk) = "connected"
                 /\ ~tk.sent => tk.via = 0
           /\ tk.backend <= tk.calls
           /\ \A j \in DOMAIN tk.log :
                /\ tk.log[j].valGuard \in {"disconnected", "noClient"} => tk.log[j].val = "failed"
                /\ tk.log[j].execGuard \in {"disconnected", "noClient"} => tk.log[j].exec = "failed"

\* a failing connect() returns false, throws nothing and leaves isConnected
\* false; isConnected becomes true only when a connect() succeeds
C10_ConnectStep ==
    /\ \A r \in Runs :
         (run[r].pc = "connecting" /\ run'[r].pc = "notConnected") =>
             /\ ~isConnected'
             /\ run'[r].connected = "false"
             /\ ~run'[r].threw
    /\ (~isConnected /\ isConnected') =>
         \E r \in Runs : run[r].pc = "connecting" /\ run'[r].pc = "repairing"

\* C10: a failing connect() returns false without throwing and leaves the
\* session disconnected; from then on executeStep and validateSelector return
\* success = false without a backend call, until a connect() succeeds.
C10_ConnectFailure == [][C10_ConnectStep]_vars /\ []C10_RefusedWhileDisconnected

\* run 2's connect() has just failed while run 1, connected, is repairing: a
\* call of run 1 was refused and went to no backend
C10_Witness ==
    /\ run[2].pc = "notConnected"
    /\ ~isConnected
    /\ run[1].pc = "repairing"
    /\ \E k \in DOMAIN task[1] :
         /\ task[1][k].pc = "execWait"
         /\ task[1][k].execGuard = "disconnected"
         /\ ~task[1][k].sent
         /\ task[1][k].backend < task[1][k].calls

\* C11: no two scenarios of the list generateGeminiScenarios returns have the
\* same id, whether the ids were supplied by the reply or synthesized from the
\* ordinal.
C11_IdsUnique ==
    gResult.done =>
        \A k1 \in DOMAIN gResult.out : \A k2 \in DOMAIN gResult.out :
            k1 # k2 => gResult.out[k1].id # gResult.out[k2].id

Contains(seq, sub) ==
    \E i \in 1..(Len(seq) - Len(sub) + 1) : SubSeq(seq, i, i + Len(sub) - 1) = sub

\* the note the rewritten description carries about the selector
ValidatedNote(selector) == <<"(validated", "selector:">> \o Template(selector) \o <<")">>

\* step j of scenario k of run r is a click / fill / expect step for which
\* validateSelector succeeded with a selector and executeStep succeeded
ValidatedAndExecuted(r, k, j) ==
    /\ StepsOf(r, k)[j].action \in {S(<<"click">>), S(<<"fill">>), S(<<"expect">>)}
    /\ task[r][k].log[j].val \in {"improved", "same"}
    /\ task[r][k].log[j].exec \in {"ok", "caught"}

AdoptsOffered(r, k, j) ==
    LET repaired == task[r][k].improvedSteps[j]
        offered == task[r][k].log[j].offered
    IN /\ repaired.target = offered
       /\ repaired.description.t = "str"
       /\ Contains(repaired.description.v, ValidatedNote(offered))

\* C12: when validateSelector for a click / fill / expect step succeeds with a
\* selector and the following executeStep succeeds, the repaired step has that
\* selector as target and a description containing "validated selector:
\* <selector>".
C12_ImprovedSelectorAdopted ==
    \A r \in Runs : \A k \in DOMAIN task[r] : \A j \in DOMAIN task[r][k].log :
        ValidatedAndExecuted(r, k, j) => AdoptsOffered(r, k, j)

\* C13: when the reply of the backend to a goto / click / fill / expect / wait
\* / type call parses to JSON with success = false, executeStep returns
\* success = false.
C13_BackendFailureReported ==
    (api.op = "executeStep" /\ api.reply = "jsonFail") => ~api.success

\* the step is a call of executeStep with an action outside the switch
UnknownActionCall ==
    /\ api'.seq = api.seq + 1
    /\ api'.op = "executeStep"
    /\ api'.action \notin {S(<<a>>) : a \in ExecutableActions}

C14_Step ==
    UnknownActionCall =>
        /\ ~api'.success
        /\ ~api'.threw
        /\ api'.reply = "none"
        /\ api'.backendCalls = api.backendCalls
        /\ UNCHANGED mcpVars

\* C14: executeStep called with an action outside goto, click, fill, expect,
\* wait, type (select and hover included) returns success = false, throws
\* nothing, issues no backend call and leaves every field of the session as it
\* was.
C14_UnknownActionRefused == [][C14_Step]_vars

\* hover was passed to executeStep on a connected session: it was refused, no
\* backend call was made and the session is still connected
C14_Witness ==
    /\ api.op = "executeStep"
    /\ api.action = S(<<"hover">>)
    /\ api.guard = "connected"
    /\ ~api.success
    /\ api.backendCalls = 0
    /\ isConnected
    /\ client # 0
    /\ clientState[client] = "open"

DisconnectCall == api'.seq = api.seq + 1 /\ api'.op = "disconnect"

Disconnected == client = 0 /\ transport = 0 /\ ~isConnected

C15_Step ==
    DisconnectCall =>
        /\ ~api'.threw
        /\ Disconnected'
        /\ Disconnected => UNCHANGED <<client, transport, isConnected, clientState, closes>>

C15_ClosedAtMostOnce ==
    \A c \in Runs : closes.client[c] <= 1 /\ closes.transport[c] <= 1

\* C15: disconnect() never throws and leaves the session disconnected (no
\* client, no transport, isConnected false), whether the session never
\* connected, failed to connect or was already disconnected; a disconnect() of
\* a disconnected session changes nothing, so two calls give the state of one;
\* no Client and no transport is closed more than once.
C15_DisconnectIdempotent == [][C15_Step]_vars /\ []C15_ClosedAtMostOnce

\* disconnect() was called twice in a row on a session that had connected:
\* its Client and transport were closed once
C15_Witness ==
    /\ api.op = "disconnect"
    /\ api.prev = "disconnect"
    /\ clientState[1] = "open"
    /\ closes.client[1] = 1
    /\ closes.transport[1] = 1
    /\ Disconnected

\* some run has called disconnect() on the session of the compiler
SessionDisconnected == \E r \in Runs : run[r].disconnects > 0

\* run r calls connect(), validateSelector or executeStep on the session
UsesSession(r) ==
    \/ run[r].pc = "fetching" /\ run'[r].pc = "connecting"
    \/ \E k \in DOMAIN task'[r] :
         IF k \in DOMAIN task[r] THEN task'[r][k].calls > task[r][k].calls
         ELSE task'[r][k].calls > 0

C16_Step == SessionDisconnected => \A r \in Runs : ~UsesSession(r)

\* C16: once disconnect() has been called on the session by one
\* generateScenarios run, no run calls connect(), executeStep or
\* validateSelector on that session object afterwards.
C16_NoUseAfterDisconnect == [][C16_Step]_vars

IsStatement(line) == Len(line) > 0 /\ line[1] = "await"
IsComment(line) == Len(line) > 0 /\ line[1] = "//"

\* the statements of a file, in the order of the file
Statements(lines) == SelectSeq(lines, IsStatement)

\* the statement names the element of the target: the target itself, its role
\* or its text
MentionsTarget(stmt, target) ==
    \/ Contains(stmt, Quoted(target))
    \/ StartsWith(target, "role=") /\ RoleMatch(target).found
         /\ Contains(stmt, Quoted(RoleMatch(target).role))
    \/ StartsWith(target, "text=") /\ Contains(stmt, Quoted(DropText(target)))

\* the statement does what the step asks for, on the target of the step
StatementFor(step, stmt) ==
    LET action == step.action.v
    IN /\ MentionsTarget(stmt, step.target.v)
       /\ CASE action = <<"goto">> -> stmt[2] = "page.goto("
            [] action = <<"click">> -> Last(stmt) = "click();"
            [] action \in {<<"fill">>, <<"type">>} ->
                 Contains(stmt, <<"fill(">> \o Quoted(Template(OrElse(step.data, S(<<>>)))))
            [] action = <<"expect">> -> stmt[2] = "expect("
            [] action = <<"wait">> -> stmt[2] = "page.waitForSelector("
            [] OTHER -> Contains(stmt, action \o <<"();">>)

\* the data of every step is a string or absent, as the Scenario IR has it
DataTyped(steps) == \A i \in 1..Len(steps) : steps[i].data.t \in {"str", "undef"}

RoundTripStatements ==
    << <<"await", "page.goto(", "'", "https://x.test", "'", ");">>,
       <<"await", "page.locator(", "'", "#login", "'", ").", "click();">>,
       <<"await", "page.locator(", "'", "#user", "'", ").", "fill(", "'", "bob", "'", ");">>,
       <<"await", "expect(", "page.locator(", "'", "#welcome", "'", ")", ").toBeVisible();">> >>

\* C18: the simple server's generatePlaywrightTest emits exactly one statement
\* per step, in the order of the steps, for every scenario whose step data are
\* strings or absent; with the css strategy the steps goto X, click S1, fill S2
\* with D, expect S3 visible give a page.goto of X, a locator(S1) click, a
\* locator(S2) fill of D and a toBeVisible on locator(S3), in that order.
C18_OneStatementPerStep ==
    (gen.done /\ DataTyped(gen.scenario.steps)) =>
        LET steps == gen.scenario.steps
            stmts == Statements(gen.simple.lines)
        IN /\ ~gen.simple.threw
           /\ Len(stmts) = Len(steps)
           /\ \A i \in 1..Len(steps) : i <= Len(stmts) /\ StatementFor(steps[i], stmts[i])
           /\ (steps = RoundTripSteps /\ gen.options.selectorStrategy = "css")
                => stmts = RoundTripStatements

\* the scenario of the round trip was compiled with the css strategy
C18_Witness ==
    /\ gen.done
    /\ gen.scenario.steps = RoundTripSteps
    /\ gen.options.selectorStrategy = "css"
    /\ Statements(gen.simple.lines) = RoundTripStatements
    /\ Len(gen.simple.lines) = 15

HandledSimple == {<<"goto">>, <<"click">>, <<"fill">>, <<"type">>, <<"expect">>, <<"wait">>}
HandledCombined == {<<"goto">>, <<"fill">>, <<"click">>, <<"expect">>}

\* nothing was thrown, every step has its statement, and a step whose action
\* is not handled has a call named after the action and a comment with its
\* description
DegradesToGenericCall(out, steps, handled) ==
    /\ ~out.threw
    /\ Len(Statements(out.lines)) = Len(steps)
    /\ \A i \in 1..Len(steps) :
         steps[i].action.v \notin handled =>
            /\ i <= Len(Statements(out.lines))
            /\ Contains(Statements(out.lines)[i], steps[i].action.v \o <<"();">>)
            /\ \E n \in 1..Len(out.lines) :
                 IsComment(out.lines[n]) /\ Contains(out.lines[n], steps[i].description.v)

\* C19: generatePlaywrightTest (of either server) never throws on a scenario
\* whose steps have a string action, target and description; a step with an
\* action outside the handled set gives a generic call named after the action
\* and a comment carrying its description, and the statements of the other
\* steps are still emitted.  Stated here for the scenarios whose step data are
\* strings or absent, the least the claim covers.
C19_UnknownActionDegrades ==
    (gen.done /\ DataTyped(gen.scenario.steps)) =>
        /\ DegradesToGenericCall(gen.simple, gen.scenario.steps, HandledSimple)
        /\ DegradesToGenericCall(gen.combined, gen.scenario.steps, HandledCombined)

\* some step of some scenario of the parsed object has an action other than
\* goto, fill, click, expect
HasOtherAction(obj) ==
    \E k \in 1..Len(obj.list) : \E j \in 1..Len(obj.list[k].steps) :
        obj.list[k].steps[j].action \notin {S(<<"goto">>), S(<<"fill">>), S(<<"click">>), S(<<"expect">>)}

\* C20: when a step of a scenario parsed by the /api/v1/generate handler of
\* the combined API has an action other than goto, fill, click, expect, the
\* request ends with an error response, and no scenario JSON file and no
\* .spec.ts file is written for it.
C20_OtherActionRejected ==
    (req.pc = "responded" /\ req.parsed \in ObjNames /\ HasOtherAction(Objects(req.parsed))) =>
        /\ req.status = 500
        /\ req.wrote = [json |-> 0, spec |-> 0, deflake |-> 0]
        /\ req.successful = <<>>

\* the second request parsed a reply whose first scenario has only allowed
\* actions and whose second has a hover step: it was rejected and the disk
\* holds only the files of the first request
C20_Witness ==
    /\ req.pc = "responded"
    /\ req.n = 2
    /\ req.parsed = "O_dup"
    /\ req.status = 500
    /\ req.wrote.json = 0
    /\ req.wrote.spec = 0
    /\ req.disk = [json |-> 1, spec |-> 2, deflake |-> 2]

\* C21: a click, fill, expect, type or wait step whose validateSelector call
\* returned success = false is returned with the target and the description of
\* the input step.
C21_ValidationFailureFallsBack ==
    \A r \in Runs : \A k \in DOMAIN task[r] : \A j \in DOMAIN task[r][k].log :
        (task[r][k].log[j].val = "failed" /\ StepsOf(r, k)[j].action \in Selectors) =>
            /\ task[r][k].improvedSteps[j].target = StepsOf(r, k)[j].target
            /\ task[r][k].improvedSteps[j].description = StepsOf(r, k)[j].description

\* C22: a failed step never ends a scenario early.  When a run returned after
\* connect() returned true and every scenario callback was started, each
\* scenario loop has ended after its last step, with one result per step, in
\* step order.
C22_FailedStepDoesNotEndScenario ==
    \A r \in Runs :
        (run[r].pc = "returned" /\ run[r].connected = "true" /\ ~Rejected(r)) =>
            /\ Len(task[r]) = Len(run[r].scenarios)
            /\ \A k \in DOMAIN task[r] :
                  /\ task[r][k].pc = "done"
                  /\ Len(task[r][k].log) = Len(StepsOf(r, k))
                  /\ Len(task[r][k].improvedSteps) = Len(StepsOf(r, k))
                  /\ \A j \in DOMAIN task[r][k].log :
                        task[r][k].improvedSteps[j].action = StepsOf(r, k)[j].action

\* executeStepWithMCP calls validateSelector for this step before executeStep
NeedsValidation(step) ==
    /\ step.action \in Selectors
    /\ ~(step.action = S(<<"wait">>) /\ step.target = S(<<"#body">>))

\* a scenario issues one call at a time: a call is issued either when the loop
\* starts a step (no call of the scenario pending, the step index moves on by
\* one) or when the pending call of the same step returns; executeStep of a
\* validated step is issued at the return of its validateSelector
C23_Step ==
    \A r \in Runs : \A k \in (DOMAIN task[r]) \cap (DOMAIN task'[r]) :
        LET tk == task[r][k]
            tn == task'[r][k]
        IN tn.calls # tk.calls =>
              /\ tn.calls = tk.calls + 1
              /\ tn.pc \in Waiting
              /\ tk.pc \in Waiting => tn.i = tk.i
              /\ tk.pc \notin Waiting => (tk.pc \in {"new", "delay"} /\ tn.i = tk.i + 1)
              /\ (tn.pc = "execWait" /\ NeedsValidation(StepsOf(r, k)[tn.i])) => tk.pc = "valWait"

C23_Pending ==
    \A r \in Runs : \A k \in DOMAIN task[r] :
        LET tk == task[r][k]
        IN /\ (tk.pc = "execWait" /\ NeedsValidation(StepsOf(r, k)[tk.i])) => tk.val # "none"
           /\ tk.pc = "valWait" => (tk.val = "none" /\ tk.exec = "none")
           /\ tk.pc \in Waiting => Len(tk.log) = tk.i - 1

\* C23: within one scenario the backend calls are strictly sequential.  No
\* call for step i+1 is issued before every call for step i has returned, and
\* within a step validateSelector has returned before executeStep is issued.
C23_CallsSequential == [](C23_Pending) /\ [][C23_Step]_vars

\* the second step of a scenario waits for executeStep: the call of the first
\* step and validateSelector of the second have returned
C23_Witness ==
    \E k \in DOMAIN task[1] :
        /\ task[1][k].pc = "execWait"
        /\ task[1][k].i = 2
        /\ NeedsValidation(StepsOf(1, k)[2])
        /\ task[1][k].val # "none"
        /\ task[1][k].calls = 3
        /\ Len(task[1][k].log) = 1

\* no validateSelector or executeStep call of run r is pending, and none will
\* be issued: every scenario loop of the run has ended
ScenarioWorkDone(r) ==
    \A k \in DOMAIN task[r] : task[r][k].pc \in {"done", "fallback", "rejected"}

\* C24: within one generateScenarios run, disconnect() is called only after
\* the work of every scenario has completed.  Once the run has called
\* disconnect(), no validateSelector or executeStep call of the run is pending
\* or still to be issued, also when one scenario has failed while others are
\* running.
C24_DisconnectAfterAllScenarios ==
    \A r \in Runs : run[r].disconnects > 0 => ScenarioWorkDone(r)

\* scenario k of run r is between two consecutive steps that act on the
\* browser: step i was executed on the session and pushed, and the loop waits
\* before step i+1, which calls the backend as well
BetweenSteps(r, k) ==
    /\ task[r][k].pc = "delay"
    /\ task[r][k].i < Len(StepsOf(r, k))
    /\ task[r][k].log[task[r][k].i].execGuard = "connected"
    /\ task[r][k].log[task[r][k].i].exec = "ok"
    /\ StepsOf(r, k)[task[r][k].i + 1].action \in Selectors

\* in this step scenario k of run r sends a call to the backend
SendsCall(r, k) ==
    /\ k \in DOMAIN task'[r]
    /\ task'[r][k].backend = task[r][k].backend + 1

C25_Step ==
    \A r \in Runs : \A k \in DOMAIN task[r] : \A k2 \in DOMAIN task[r] :
        (k2 # k /\ BetweenSteps(r, k)) => ~SendsCall(r, k2)

\* C25: when a run repairs two or more scenarios, no backend call of another
\* scenario is issued on the shared session between two consecutive steps of
\* one scenario.
C25_NoCallOfOtherScenarioBetweenSteps == [][C25_Step]_vars

\* the repair of scenario k of run r threw: in its loop (caught by the
\* callback) or in the callback before its try
RepairThrew(r, k) == task[r][k].pc \in {"fallback", "rejected"}

\* C26: scenario-tier fallback is isolated.  In a run that returned after
\* connect() returned true, a scenario whose repair threw is returned as it
\* was generated, and every other scenario is returned repaired, at its own
\* position: the result of its finished loop, with its timeTakenToCompile.
C26_ScenarioFallbackIsolated ==
    \A r \in Runs :
        (run[r].pc = "returned" /\ run[r].connected = "true") =>
            /\ Len(run[r].mcpOutput.outputs) = Len(run[r].scenarios)
            /\ \A k \in DOMAIN run[r].scenarios :
                  IF RepairThrew(r, k)
                  THEN run[r].mcpOutput.outputs[k] = run[r].scenarios[k]
                  ELSE /\ task[r][k].pc = "done"
                       /\ run[r].mcpOutput.outputs[k] = Improved(run[r].scenarios[k], task[r][k])

\* step j of scenario k of run r as geminiOutput reads it now.  geminiOutput
\* holds the generated scenario objects themselves, not copies: a repaired
\* step that is the generated step object reads there as it was pushed
SnapshotStep(r, k, j) ==
    IF k \in DOMAIN task[r] /\ j \in DOMAIN task[r][k].log /\ ~task[r][k].log[j].fresh
    THEN task[r][k].improvedSteps[j]
    ELSE run[r].scenarios[k].steps[j]

\* step j of scenario k in the post-repair output differs from the generated
\* step in target or description
StepChanged(r, k, j) ==
    LET generated == run[r].geminiOutput.outputs[k].steps[j]
        repaired == run[r].mcpOutput.outputs[k].steps[j]
    IN repaired.target # generated.target \/ repaired.description # generated.description

FirstStepGoto(r, k) ==
    /\ Len(StepsOf(r, k)) >= 1
    /\ StepsOf(r, k)[1].action = S(<<"goto">>)

\* C28: when the first step of a scenario is a goto, repair calls
\* executeStep('goto', url) with the url of the run, not the target of the
\* step, and makes no other call for the step; the step is returned with its
\* own target, and with the description "Successfully navigated to <url>" if
\* the call succeeded, its own description otherwise.
C28_FirstGotoUsesRunUrl ==
    \A r \in Runs : \A k \in DOMAIN task[r] :
        LET tk == task[r][k]
        IN /\ tk.pc = "gotoWait" => (tk.i = 1 /\ FirstStepGoto(r, k) /\ tk.arg = Url)
           /\ (FirstStepGoto(r, k) /\ tk.i = 1 /\ tk.pc \in Waiting) => tk.pc = "gotoWait"
           /\ (FirstStepGoto(r, k) /\ Len(tk.log) >= 1) =>
                 /\ tk.log[1].val = "none"
                 /\ tk.log[1].exec \in {"ok", "failed"}
                 /\ tk.improvedSteps[1].target = StepsOf(r, k)[1].target
                 /\ tk.improvedSteps[1].description =
                       IF tk.log[1].exec = "ok" THEN NavigateDescription(Url)
                       ELSE StepsOf(r, k)[1].description

\* a scenario whose first step is a goto to another address than the url of
\* the run: the call was made with the url of the run and succeeded, the step
\* was pushed with its own target and the rewritten description
C28_Witness ==
    \E k \in DOMAIN task[1] :
        /\ FirstStepGoto(1, k)
        /\ StepsOf(1, k)[1].target # Url
        /\ Len(task[1][k].log) >= 1
        /\ task[1][k].log[1].exec = "ok"
        /\ task[1][k].improvedSteps[1].target = StepsOf(1, k)[1].target
        /\ task[1][k].improvedSteps[1].description = NavigateDescription(Url)

\* C29: the result of validateSelector carries an improvedSelector only when
\* the reply of the backend reported one.  When the reply is JSON without an
\* improvedSelector field, or has no text content, the result has no
\* improvedSelector.
C29_ImprovedSelectorOnlyWhenReported ==
    (api.op = "validateSelector" /\ api.reply \in {"jsonPlain", "empty"}) =>
        api.improvedSelector = Undef

\* the text of a reply of validateSelector that is no JSON
TextOf(reply) == IF reply = "text" THEN BackendText ELSE S(<<>>)

\* scenario k of run r has called executeStep after validateSelector came back
\* with one of `replies`: validateSelector returned success = true with the
\* text of the reply as improvedSelector, and executeStep is called with it
AdoptsText(r, k, replies) ==
    LET tk == task[r][k]
    IN (tk.pc = "execWait" /\ tk.valReply \in replies) =>
          /\ tk.val # "failed"
          /\ tk.offered = TextOf(tk.valReply)
          /\ tk.improvedTarget = TextOf(tk.valReply)
          /\ tk.arg = TextOf(tk.valReply)

\* C30: when the reply of the backend to validateSelector is text that is not
\* parseable as JSON, validateSelector returns success = true with that text
\* as improvedSelector, and the executeStep call of the step is made with
\* that text as target.
C30_TextReplyAdopted ==
    \A r \in Runs : \A k \in DOMAIN task[r] : AdoptsText(r, k, {"text", "emptyText"})

\* C30, amended: as above, for a reply whose text is not empty.
C30_NonEmptyTextReplyAdopted ==
    \A r \in Runs : \A k \in DOMAIN task[r] : AdoptsText(r, k, {"text"})

\* validateSelector of a click step came back with text that is no JSON, and
\* playwright_click is pending with that text as selector
C30_Witness ==
    \E k \in DOMAIN task[1] :
        /\ task[1][k].pc = "execWait"
        /\ task[1][k].valReply = "text"
        /\ StepsOf(1, k)[task[1][k].i].action = S(<<"click">>)
        /\ task[1][k].arg = BackendText
        /\ task[1][k].arg # StepsOf(1, k)[task[1][k].i].target
        /\ task[1][k].sent

(***************************************************************************)
(* Field defaulting of generateGeminiScenarios                             *)
(***************************************************************************)
\* the scenarios array that generateGeminiScenarios mapped, or <<>> when the
\* call ended in its catch
C31_Raw ==
    IF ~gResult.done \/ generateTestScenariosThrows(gOutcome) THEN <<>>
    ELSE LET parsed == parseGeminiResponse(gOutcome.reply)
         IN IF parsed = "throw" THEN <<>>
            ELSE IF Objects(parsed).scen # "array" THEN <<>>
            ELSE IF \E k \in 1..Len(Objects(parsed).list) : ~Objects(parsed).list[k].hasSteps
                 THEN <<>>
            ELSE Objects(parsed).list

\* the result keeps the field when kept(field) holds and holds the default
\* otherwise
C31_Defaulted(kept(_)) ==
    /\ Len(gResult.out) = Len(C31_Raw)
    /\ \A k \in 1..Len(C31_Raw) :
         LET raw == C31_Raw[k]
             out == gResult.out[k]
             field(given, default, got) == got = (IF kept(given) THEN given ELSE default)
         IN /\ field(raw.id, S(<<"scn_", ToString(k)>>), out.id)
            /\ field(raw.name, S(<<"Generated", "Scenario", ToString(k)>>), out.name)
            /\ field(raw.tags, Arr(<<"generated">>), out.tags)
            /\ Len(out.steps) = Len(raw.steps)
            /\ \A j \in 1..Len(raw.steps) :
                 /\ field(raw.steps[j].action, S(<<"click">>), out.steps[j].action)
                 /\ field(raw.steps[j].target, S(<<"#body">>), out.steps[j].target)
                 /\ field(raw.steps[j].description, S(<<"Step", ToString(j)>>),
                          out.steps[j].description)
                 /\ out.steps[j].data = raw.steps[j].data

C31_IsPresent(x) == x # Undef

\* C31: in the list generateGeminiScenarios returns, a scenario without id has
\* the id scn_<position>, without name the name Generated Scenario <position>,
\* without tags the tags [generated]; a step without action has click, without
\* target #body, without description Step <position>; and every field that is
\* present in the reply is kept as given
C31_PresentFieldKept == C31_Defaulted(C31_IsPresent)

\* C31 (amended): the defaults above replace every field that is absent or
\* falsy (the empty string), a truthy field is kept as given, and data is
\* always kept as given
C31_TruthyFieldKept == C31_Defaulted(Truthy)

\* a reply whose step carries the empty string as its description was mapped:
\* the step has the description Step <position>
C31_Witness ==
    /\ gResult.done
    /\ \E k \in 1..Len(C31_Raw) : \E j \in 1..Len(C31_Raw[k].steps) :
         /\ C31_Raw[k].steps[j].description = S(<<>>)
         /\ C31_Raw[k].id = S(<<>>)
         /\ gResult.out[k].id = S(<<"scn_", ToString(k)>>)
         /\ gResult.out[k].tags = Arr(<<>>)
         /\ gResult.out[k].steps[j].description = S(<<"Step", ToString(j)>>)

(***************************************************************************)
(* parseGeminiResponse and text after the first object                     *)
(***************************************************************************)
\* the first balanced brace pair of the text is a whole JSON object: no stray
\* opening brace comes before the first object segment
C32_FirstObject(text) ==
    LET objs == {k \in 1..Len(text) : text[k] \in ObjNames}
    IN IF objs = {} THEN "none"
       ELSE IF \E k \in 1..Min(objs) : text[k] = "lbrace" THEN "none"
       ELSE text[Min(objs)]

\* C32: parseGeminiResponse parses the content of the first fenced code block
\* of the reply if there is one and otherwise the reply itself, and in that
\* text it parses the first balanced brace pair: when that pair is a JSON
\* object, the call yields this object whatever text and whatever further
\* braces follow it, and generateGeminiScenarios maps the scenarios of this
\* object
C32_FirstBalancedObjectParsed ==
    (gResult.done /\ gOutcome.kind = "text") =>
        LET first == C32_FirstObject(FencedText(gOutcome.reply))
        IN first # "none" =>
              /\ parseGeminiResponse(gOutcome.reply) = first
              /\ gResult.out = generateGeminiScenarios(FetchOutcome("text", <<first>>))

(***************************************************************************)
(* Selector resolution of fill, type and click                             *)
(***************************************************************************)
\* the statement of step i in an emitted file: three header lines, then a
\* comment, a statement and an empty line per step
StatementOf(out, i) == out.lines[3 + 3 * (i - 1) + 2]

\* the lookup of a statement: page.getByRole(, page.getByText( or
\* page.locator(; a line that is no statement has none
LookupOf(line) == IF Len(line) >= 2 /\ line[1] = "await" THEN line[2] ELSE "none"

\* the step as a click on the same target
AsClick(step) == [step EXCEPT !.action = S(<<"click">>)]

FillActions == {S(<<"fill">>), S(<<"type">>)}

\* the tail of a statement that fills with data
EndsWith(line, tail) ==
    Len(line) >= Len(tail) /\ SubSeq(line, Len(line) - Len(tail) + 1, Len(line)) = tail

\* C33: in both servers the statement generatePlaywrightTest emits for a fill
\* or type step uses the lookup kind (role-based, text-based or raw selector)
\* that a click step with the same target gets under the same selector
\* strategy, and fills with the step's data or with the empty string when the
\* data is absent
C33_FillResolvesLikeClick ==
    (gen.done /\ ~gen.simple.threw /\ ~gen.combined.threw) =>
        \A i \in 1..Len(gen.scenario.steps) :
            LET step == gen.scenario.steps[i]
            IN step.action \in FillActions =>
                 /\ LookupOf(StatementOf(gen.simple, i))
                      = LookupOf(StepLines_simple(AsClick(step), gen.options).lines[2])
                 /\ LookupOf(StatementOf(gen.combined, i))
                      = LookupOf(StepLines_combined(AsClick(step), gen.options).lines[2])
                 /\ EndsWith(StatementOf(gen.simple, i), FillCall(step.data))
                 /\ EndsWith(StatementOf(gen.combined, i), FillCall(step.data))

\* a role expression: the target starts with role= and holds role= followed
\* by a role name
RoleExpression(target) ==
    /\ StartsWith(target, "role=")
    /\ \E i \in 1..(Len(target) - 1) : target[i] = "role=" /\ target[i + 1] \notin Brackets

\* the lookup the claim gives to a click on target
ClickLookup(target, options) ==
    IF options.selectorStrategy = "role-first" /\ RoleExpression(target)
    THEN "page.getByRole("
    ELSE IF StartsWith(target, "text=") THEN "page.getByText("
    ELSE "page.locator("

\* C34: in both servers the statement of a click step is a role-based lookup
\* exactly when the selector strategy is role-first and the target is a role
\* expression; otherwise it is a text-based lookup when the target starts with
\* text=, and a click on the raw selector in every other case, a role
\* expression under the css strategy included
C34_ClickSelectorResolution ==
    (gen.done /\ ~gen.simple.threw /\ ~gen.combined.threw) =>
        \A i \in 1..Len(gen.scenario.steps) :
            LET step == gen.scenario.steps[i]
                lookup == ClickLookup(step.target.v, gen.options)
            IN step.action = S(<<"click">>) =>
                 /\ LookupOf(StatementOf(gen.simple, i)) = lookup
                 /\ LookupOf(StatementOf(gen.combined, i)) = lookup
                 /\ EndsWith(StatementOf(gen.simple, i), ClickCall)
                 /\ (lookup = "page.locator(") =>
                       /\ StatementOf(gen.simple, i) = LocatorCall(step.target.v, ClickCall)
                       /\ StatementOf(gen.combined, i) = LocatorCall(step.target.v, ClickCall)

\* a click on a role expression was compiled under the css strategy, next to
\* a click on a text= target
C34_Witness ==
    /\ gen.done
    /\ gen.options.selectorStrategy = "css"
    /\ Len(gen.scenario.steps) = 2
    /\ gen.scenario.steps[1].action = S(<<"click">>)
    /\ gen.scenario.steps[1].target = S(RoleButtonLogin)
    /\ gen.scenario.steps[2].action = S(<<"click">>)
    /\ StartsWith(gen.scenario.steps[2].target.v, "text=")
    /\ StatementOf(gen.simple, 1) = LocatorCall(RoleButtonLogin, ClickCall)
    /\ StatementOf(gen.combined, 1) = LocatorCall(RoleButtonLogin, ClickCall)
    /\ LookupOf(StatementOf(gen.combined, 2)) = "page.getByText("

(***************************************************************************)
(* The compilation results of the combined API                             *)
(***************************************************************************)
\* position k of the parsed scenarios is in the list
Reported(list, k) == \E n \in 1..Len(list) : list[n] = k

\* the handler has saved the scenarios of the request and entered the
\* compilation loop
CompilationStarted == req.pc = "responded" /\ req.wrote.json = 1

\* C35: every request of the combined API whose scenarios reached the
\* compilation loop is answered with compilation results in which each parsed
\* scenario is reported in exactly one of successful and failed, so that
\* successfulCompilations + failedCompilations = totalScenarios: a scenario
\* that fails to compile or to be saved does not keep the others from being
\* compiled and reported
C35_EveryScenarioReportedOnce ==
    CompilationStarted =>
        LET list == Objects(req.parsed).list
        IN /\ req.status = 200
           /\ req.totalScenarios = Len(list)
           /\ Len(req.successful) + Len(req.failed) = req.totalScenarios
           /\ \A k \in 1..Len(list) :
                Reported(req.successful, k) # Reported(req.failed, k)

(***************************************************************************)
(* The flag mcpValidationSuccessful                                        *)
(***************************************************************************)
\* C36: the flag mcpValidationSuccessful of a returned run, in the result and
\* in the metadata of mcpOutput, is true exactly when connect() returned true
\* and repair returned (no scenario callback rejected), whatever the
\* validateSelector and executeStep calls of the run reported
C36_FlagFollowsConnect ==
    \A r \in Runs :
        run[r].pc = "returned" =>
            /\ run[r].mcpValidationSuccessful = (run[r].connected = "true" /\ ~Rejected(r))
            /\ run[r].mcpOutput.mcpValidationSuccessful = run[r].mcpValidationSuccessful

\* a run returned with the flag true although every validateSelector call and
\* every executeStep call of its steps failed and every step is returned as
\* generated
C36_Witness ==
    \E r \in Runs :
        /\ run[r].pc = "returned"
        /\ run[r].mcpValidationSuccessful
        /\ Len(run[r].scenarios) = 2
        /\ \A k \in DOMAIN task[r] :
             /\ Len(task[r][k].log) = Len(StepsOf(r, k))
             /\ \A j \in DOMAIN task[r][k].log :
                  /\ task[r][k].log[j].exec = "failed"
                  /\ task[r][k].log[j].val \in {"failed", "none"}
             /\ \E j \in DOMAIN task[r][k].log : task[r][k].log[j].val = "failed"
             /\ \A j \in DOMAIN StepsOf(r, k) :
                  /\ run[r].improvedScenarios[k].steps[j].target = StepsOf(r, k)[j].target
                  /\ run[r].improvedScenarios[k].steps[j].description
                       = StepsOf(r, k)[j].description

(***************************************************************************)
(* What repair leaves alone                                                *)
(***************************************************************************)
\* C37: in the post-repair snapshot of a returned run every scenario has the
\* id, the name and the tags of the generated scenario at its position and as
\* many steps, and every step has the action and the data of the generated
\* step at its position: repair changes only target and description of a step
\* and timeTakenToCompile of a scenario
C37_RepairFrame ==
    \A r \in Runs :
        run[r].pc = "returned" =>
            /\ Len(run[r].improvedScenarios) = Len(run[r].scenarios)
            /\ \A k \in 1..Len(run[r].scenarios) :
                 LET before == run[r].scenarios[k]
                     after == run[r].improvedScenarios[k]
                 IN /\ after.id = before.id
                    /\ after.name = before.name
                    /\ after.tags = before.tags
                    /\ Len(after.steps) = Len(before.steps)
                    /\ \A j \in 1..Len(before.steps) :
                         /\ after.steps[j].action = before.steps[j].action
                         /\ after.steps[j].data = before.steps[j].data

\* a run returned after repair: a step that carries data has a new target and
\* a new description, and its scenario has its compile time
C37_Witness ==
    \E r \in Runs :
        /\ run[r].pc = "returned"
        /\ run[r].mcpValidationSuccessful
        /\ \E k \in 1..Len(run[r].scenarios) :
             /\ run[r].improvedScenarios[k].timeTakenToCompile # Undef
             /\ run[r].scenarios[k].timeTakenToCompile = Undef
             /\ \E j \in 1..Len(run[r].scenarios[k].steps) :
                  /\ run[r].scenarios[k].steps[j].data # Undef
                  /\ run[r].improvedScenarios[k].steps[j].target
                       # run[r].scenarios[k].steps[j].target
                  /\ run[r].improvedScenarios[k].steps[j].description
                       # run[r].scenarios[k].steps[j].description

(***************************************************************************)
(* Repair does not retry                                                   *)
(***************************************************************************)
\* the calls of the step that scenario k of run r is at
CallsInFlight(tk) ==
    CASE tk.pc \in {"gotoWait", "valWait"} -> 1
      [] tk.pc = "execWait" -> IF tk.valGuard = "none" THEN 1 ELSE 2
      [] OTHER -> 0

\* the calls of a scenario are at most two per step, finished or under way
CallsBounded ==
    \A r \in Runs : \A k \in DOMAIN task[r] :
        /\ task[r][k].calls <= 2 * Len(task[r][k].log) + CallsInFlight(task[r][k])
        /\ task[r][k].calls <= 2 * Len(StepsOf(r, k))

\* a call is the first call of a step that starts, or the executeStep call
\* that follows the validateSelector call of the same step
NoRetryStep ==
    \A r \in Runs : \A k \in DOMAIN task[r] :
        (k \in DOMAIN task'[r] /\ task'[r][k].calls # task[r][k].calls) =>
            /\ task'[r][k].calls = task[r][k].calls + 1
            /\ \/ task'[r][k].i # task[r][k].i
               \/ task[r][k].pc = "valWait" /\ task'[r][k].pc = "execWait"

\* C38: repair does not retry: a step gets at most one validateSelector call
\* and at most one executeStep call, so a scenario of n steps issues at most 2n
\* calls, and, when every awaited promise settles, a generateScenarios call
\* with a valid input returns after one call of disconnect()
C38_NoRetryAndTerminates ==
    /\ []CallsBounded
    /\ [][NoRetryStep]_vars
    /\ (run[1].pc = "fetching") ~> (run[1].pc = "returned" /\ run[1].disconnects = 1)

\* a run of two scenarios returned after the scenario that validates and
\* executes both of its steps issued four calls
C38_Witness ==
    /\ run[1].pc = "returned"
    /\ run[1].disconnects = 1
    /\ Len(task[1]) = 2
    /\ \E k \in DOMAIN task[1] :
         /\ Len(StepsOf(1, k)) = 2
         /\ task[1][k].calls = 4
         /\ task[1][k].pc = "done"

(***************************************************************************)
(* The two generatePlaywrightTest implementations                          *)
(***************************************************************************)
\* C39: for every scenario and every options value the generatePlaywrightTest
\* of the combined API server and that of the simple server emit the same
\* source text (or both throw)
C39_ServersEquivalent ==
    gen.done => gen.simple = gen.combined

(***************************************************************************)
(* Single-quoted literals of the emitted statements                        *)
(***************************************************************************)
\* the tokens a string literal of an emitted line follows and is followed by
LiteralOpeners ==
    {"from", "test(", "page.goto(", "page.locator(", "page.getByRole(", "page.getByText(",
     "name:", "fill(", "page.waitForSelector(", ").toContainText("}
LiteralClosers == {";", ",", ").", ");", ")"}

\* reading the line left to right, every quote that opens a literal follows an
\* opener and the next quote, which ends the literal, is followed by a closer
WellQuoted(line) ==
    LET quotes == {p \in 1..Len(line) : line[p] = "'"}
        nth(p) == Cardinality({q \in quotes : q <= p})
    IN /\ Cardinality(quotes) % 2 = 0
       /\ \A p \in quotes :
            IF nth(p) % 2 = 1
            THEN p > 1 /\ line[p - 1] \in LiteralOpeners
            ELSE p < Len(line) /\ line[p + 1] \in LiteralClosers

\* every line of the file that is no comment is well quoted
FileWellQuoted(out) ==
    \A n \in 1..Len(out.lines) :
        (out.lines[n] # <<>> /\ out.lines[n][1] # "//") => WellQuoted(out.lines[n])

\* C40: in the source text either server emits, every target, data or text
\* value embedded in a statement forms a well-formed single-quoted string
\* literal: the literal ends at the quote the template closes it with, also
\* when the value holds a single quote
C40_LiteralsWellFormed ==
    gen.done => (FileWellQuoted(gen.simple) /\ FileWellQuoted(gen.combined))

====
